---- MODULE Spec2Model ----
(***************************************************************************)
(* EtsyUploader (src/src/uploader.py): the batch coordinator upload_bulk / *)
(* upload_single and the per-listing workflow upload_single_product with   *)
(* its retry by self-reinvocation.                                         *)
(*                                                                         *)
(* One action is one stretch of code between two blocking points (a page   *)
(* load, an element wait, a sleep).  The environment decides the outcome   *)
(* of every browser interaction; the operator may interrupt (Ctrl-C,       *)
(* KeyboardInterrupt) at any blocking point.                               *)
(***************************************************************************)
EXTENDS Integers, Sequences, FiniteSets, TLC

\* ------------------------------------------------------------------ bounds
MaxProducts == 2
MaxRetriesBound == 1
MaxRuns == 2
MaxBatch == 12
MaxTagsIn == 14
MaxTagFaults == 1
MaxImagesIn == 11
MaxCandidates == 3
MaxBindsAllKeys == 1
MaxBinds == 2
MaxRetriesLong == 2
MaxTagParts == 14
MaxConstructions == 2

Min(a, b) == IF a < b THEN a ELSE b
Max(a, b) == IF a > b THEN a ELSE b

\* ------------------------------------------------------------------ inputs
\* A row of the CSV as the workflow sees it.  titleIsStr: the title cell is a
\* string (pandas yields a float NaN for an empty cell and a number for a
\* numeric one; slicing either raises TypeError at the "Processing" print).
\* The rows are read-only and no row is read twice in a call, so the content
\* of a row is drawn when the loop reaches it.
Records == [titleIsStr : BOOLEAN]
NoRecord == [titleIsStr |-> TRUE]
RowCounts == 0..MaxProducts
StartIndices == (0 - 1)..(MaxProducts + 1)
ProductIds == (0 - (MaxProducts + 1))..MaxProducts

\* --------------------------------------------------------------- variables
VARIABLES
  max_retries,     \* config['settings']['max_retries']
  runs,            \* calls of upload_bulk / upload_single made on this uploader
  mode,            \* "none" | "bulk" | "single": the call in progress or made last
  pc,              \* "idle" | "setup" | "login" | "item" | "delay" | "done" | "raised"
  raisedBy,        \* what left the call as an exception: "none" | "setup" | "interrupt" | "index"
  n_products,      \* len(products): the rows load_products_csv returned
  product,         \* the row the loop is at (`product`)
  start_index,     \* upload_bulk's start_index
  product_id,      \* upload_single's product_id
  pos,             \* position of the current item in products[start_index:]
  stats,           \* self.stats: total, success, failed
  driver,          \* self.driver: "none" | "open" | "quit"
  openSessions,    \* browser sessions opened and not yet quit
  summaryPrinted,  \* _print_summary was called in the current call
  loggedIn,        \* what login() returned to the current call: "none" | "ok" | "failed"
  wf,              \* upload_single_product for the current item (see FreshWf)
  formFilled,      \* a field of the page now loaded has been written
  lastResult,      \* what the workflow returned last in this call: "none" | "true" | "false"
  invoked,         \* rows the workflow was invoked on in this call, in order
  returned,        \* workflow invocations that have returned, over all calls
  stepOutcomes,    \* history: the outcome of each step of stepLog (SpecListing)
  sleeps,          \* history: the labels i after which upload_bulk slept (SpecBatch)
  submitPage,      \* history: the page _publish_listing met last (SpecSubmit)
  tagsRun,         \* a call of _add_tags (SpecTags)
  imagesRun,       \* a call of _upload_images (SpecImages)
  resolution,      \* a call of find_element_by_any_selector (SpecResolve)
  generation,      \* a call of a selector generator (SpecGenerate)
  discovery,       \* one recipe recorded and resolved again (SpecDiscover)
  rec,             \* a run of the SelectorRecorder (SpecKeys, SpecEdit)
  tagCheck,        \* one tag string taken through both tag limits (SpecLimit)
  construction     \* constructions of the logger and the uploader (SpecConstruct)

\* What a call fixes on entry.
callVars == <<max_retries, runs, mode, n_products, start_index, product_id>>

\* The uploader's state.
uploaderVars ==
  <<callVars, pc, raisedBy, product, pos, stats, driver, openSessions,
    summaryPrinted, loggedIn, wf, formFilled, lastResult, invoked, returned>>

\* What the steps of the uploader, taken at the grain of Spec, leave alone:
\* the history variables of the finer and the longer runs, and the calls
\* taken on their own.
beside == <<stepOutcomes, sleeps, submitPage, tagsRun, imagesRun, resolution,
           generation, discovery, rec,
    tagCheck, construction>>

vars == <<uploaderVars, beside>>

\* The calls of single steps, taken on their own.
steps == <<tagsRun, imagesRun, resolution, generation, discovery, rec,
    tagCheck, construction>>

\* What a call taken on its own leaves alone.
besidesTags ==
  <<uploaderVars, stepOutcomes, sleeps, submitPage, imagesRun, resolution,
    generation, discovery, rec,
    tagCheck, construction>>
besidesImages ==
  <<uploaderVars, stepOutcomes, sleeps, submitPage, tagsRun, resolution,
    generation, discovery, rec,
    tagCheck, construction>>
besidesResolution ==
  <<uploaderVars, stepOutcomes, sleeps, submitPage, tagsRun, imagesRun,
    generation, discovery, rec,
    tagCheck, construction>>
besidesGeneration ==
  <<uploaderVars, stepOutcomes, sleeps, submitPage, tagsRun, imagesRun,
    resolution, discovery, rec,
    tagCheck, construction>>
besidesDiscovery ==
  <<uploaderVars, stepOutcomes, sleeps, submitPage, tagsRun, imagesRun,
    resolution, generation, rec,
    tagCheck, construction>>
besidesRec ==
  <<uploaderVars, stepOutcomes, sleeps, submitPage, tagsRun, imagesRun,
    resolution, generation, discovery, tagCheck, construction>>
besidesTagCheck ==
  <<uploaderVars, stepOutcomes, sleeps, submitPage, tagsRun, imagesRun,
    resolution, generation, discovery, rec, construction>>
besidesConstruction ==
  <<uploaderVars, stepOutcomes, sleeps, submitPage, tagsRun, imagesRun,
    resolution, generation, discovery, rec, tagCheck>>

\* ------------------------------------------------------------ the workflow
\* The order the spec gives the steps (section 4.3).
SpecStepOrder ==
  <<"navigate", "title", "description", "price", "quantity", "category",
    "images", "digital", "tags", "publish">>

\* The calls of upload_single_product's try block, in source order.
StepOrder ==
  <<"navigate", "title", "description", "price", "quantity", "category",
    "tags", "images", "digital", "publish">>

FillSteps == {"title", "description", "price", "quantity", "category",
              "tags", "images", "digital"}

\* What a fill step can come to: its action ran ("applied"), its target did
\* not resolve ("skipped"), or the action raised and the step's own
\* `except Exception` caught it ("error").
FillOutcomes == {"applied", "skipped", "error"}

\* _publish_listing: a publish button was clicked, a save-draft button was
\* clicked, no enabled button was found, or a lookup or click raised (caught).
PublishOutcomes == {"published", "drafted", "none", "error"}

\* _publish_listing's return value: True after a click, False otherwise.
PublishReturns(outcome) == outcome \in {"published", "drafted"}

\* What _publish_listing meets on the page.  A lookup (find_elements and the
\* is_enabled() of the buttons found) raises, finds no enabled button, or
\* finds an enabled one, which is the one clicked; a click goes through or
\* raises.
Lookups == {"raises", "none", "enabled"}
Clicks == {"clicked", "raises"}
Pages == [publish : Lookups, draft : Lookups, click : Clicks]
NoPage == [publish |-> "none", draft |-> "none", click |-> "clicked"]

PublishListingAlsoDrafts(page) ==
  IF page.publish = "raises"
    THEN [calls |-> <<"find_publish">>, outcome |-> "error"]
  ELSE IF page.publish = "enabled" /\ page.click = "raises"
    THEN [calls |-> <<"find_publish", "click_publish">>, outcome |-> "error"]
  ELSE IF page.draft = "raises"
    THEN [calls |-> (IF page.publish = "enabled"
                       THEN <<"find_publish", "click_publish", "find_draft">>
                       ELSE <<"find_publish", "find_draft">>),
          outcome |-> "error"]
  ELSE IF page.draft = "enabled"
    THEN [calls |-> (IF page.publish = "enabled"
                       THEN <<"find_publish", "click_publish", "find_draft",
                              "click_draft">>
                       ELSE <<"find_publish", "find_draft", "click_draft">>),
          outcome |-> "drafted"]
  ELSE [calls |-> (IF page.publish = "enabled"
                     THEN <<"find_publish", "click_publish", "find_draft">>
                     ELSE <<"find_publish", "find_draft">>),
        outcome |-> IF page.publish = "enabled" THEN "published" ELSE "none"]

\* _publish_listing: the driver calls it makes, in order, and what it comes
\* to.  The first enabled publish button is clicked and the method returns;
\* only with no enabled publish button are the save-draft buttons looked up.
\* Whatever raises ends the method in its except clause.
PublishListing(page) ==
  IF page.publish = "raises"
    THEN [calls |-> <<"find_publish">>, outcome |-> "error"]
  ELSE IF page.publish = "enabled"
    THEN [calls |-> <<"find_publish", "click_publish">>,
          outcome |-> IF page.click = "clicked" THEN "published" ELSE "error"]
  ELSE IF page.draft = "raises"
    THEN [calls |-> <<"find_publish", "find_draft">>, outcome |-> "error"]
  ELSE IF page.draft = "enabled"
    THEN [calls |-> <<"find_publish", "find_draft", "click_draft">>,
          outcome |-> IF page.click = "clicked" THEN "drafted" ELSE "error"]
  ELSE [calls |-> <<"find_publish", "find_draft">>, outcome |-> "none"]

IndexOf(step) == CHOOSE k \in 1..Len(StepOrder) : StepOrder[k] = step

\* The step upload_single_product calls after `step`.
NextStep(step) == StepOrder[IndexOf(step) + 1]

\* ------------------------------------------------------------- _add_tags
\* `tags` as _add_tags sees it: a str (split(',') gives at least one part),
\* the empty str (the default of product.get('tags', ''); split(',') gives
\* one part, the empty text, written 0), a list, or anything else (the float
\* NaN of an empty cell).  The tags of the input are told apart by their
\* position, 1..n.
TagLimit == 13
DefaultTagCount == 12
TagKinds == {"str", "empty", "list", "other"}
TagsInputs ==
  {inp \in [kind : TagKinds, n : 0..MaxTagsIn] :
     /\ inp.kind = "str" => inp.n >= 1
     /\ inp.kind \in {"empty", "other"} => inp.n = 0}

\* s[:k]
FirstN(s, k) == SubSeq(s, 1, Min(Len(s), k))

\* DEFAULT_TAGS, told apart from the tags of the input by their sign.
DefaultTags == [k \in 1..DefaultTagCount |-> 0 - k]

\* The parsing at the top of _add_tags.
ParsedTags(inp) ==
  IF inp.kind = "other" THEN <<>>
  ELSE IF inp.kind = "empty" THEN <<0>>
  ELSE [k \in 1..inp.n |-> k]

TagListUnlimited(inp) ==
  IF ParsedTags(inp) = <<>> THEN FirstN(DefaultTags, TagLimit)
  ELSE ParsedTags(inp)

\* EtsyCSVBuilder.parse_tags of a string of n comma-separated tags: '' for
\* an empty string, else the first 13 parts, joined again.
parse_tags(n) == IF n = 0 THEN <<>> ELSE FirstN([k \in 1..n |-> k], TagLimit)

\* tag_list as the loop of _add_tags goes through it: the default tags for
\* an empty list, then tag_list[:13].
TagList(inp) ==
  FirstN(IF ParsedTags(inp) = <<>> THEN FirstN(DefaultTags, TagLimit)
         ELSE ParsedTags(inp),
         TagLimit)

\* What the body of the loop comes to for one tag: wait_for_element returns
\* None; send_keys(tag) raises; send_keys(tag) types the tag and
\* send_keys('\n') raises; or both keypresses go through.  The bare except of
\* the body swallows what is raised.
TagOutcomes == {"unresolved", "type_raises", "enter_raises", "committed"}

\* The driver calls made for `tag`, as <<call, tag>>.
TagEvents(tag, outcome) ==
  CASE outcome = "unresolved" -> << <<"no_input", tag>> >>
    [] outcome = "type_raises" -> << <<"type_raised", tag>> >>
    [] outcome = "enter_raises" -> << <<"type", tag>>, <<"enter_raised", tag>> >>
    [] outcome = "committed" -> << <<"type", tag>>, <<"enter", tag>> >>

\* pc: "idle", "loop" or "done"; i: tags the loop has gone through; events:
\* the driver calls made; faults: tags whose body did not run to its end.
NoTagsRun ==
  [input |-> [kind |-> "other", n |-> 0], pc |-> "idle", i |-> 0,
   events |-> <<>>, faults |-> 0]

\* --------------------------------------------------------- _upload_images
\* `image_paths` as _upload_images sees it: falsy ('' or None), a str (its
\* non-blank ';'-parts), a list, or anything else (NaN).  The paths are told
\* apart by their position, 1..n.
ImageLimit == 10
ImageKinds == {"falsy", "str", "list", "other"}
ImagesInputs ==
  {inp \in [kind : ImageKinds, n : 0..MaxImagesIn] :
     /\ inp.kind \in {"falsy", "other"} => inp.n = 0
     /\ inp.kind = "list" => inp.n >= 1}

PathsToAttachUnlimited(inp) == [k \in 1..inp.n |-> k]

\* paths[:10]
PathsToAttach(inp) == FirstN([k \in 1..inp.n |-> k], ImageLimit)

\* EtsyCSVBuilder.transform_product: image_1..image_10 from `for i in
\* range(10)`, images[i] where i < len(images) and '' (here 0) elsewhere.
image_columns(n) ==
  [c \in 1..ImageLimit |-> LET i == c - 1 IN IF i < n THEN i + 1 ELSE 0]

\* One entry of the loop: os.path.exists is False; send_keys attaches the
\* file; send_keys raises, which ends the method in its except clause.
PathOutcomes == {"missing", "attached", "attach_raised"}

\* pc: "idle", "start", "loop" or "done"; i: entries the loop has gone
\* through; events: <<outcome, path>> of each; returns: the return value.
NoImagesRun ==
  [input |-> [kind |-> "falsy", n |-> 0], pc |-> "idle", i |-> 0,
   events |-> <<>>, returns |-> "none"]

\* ------------------------------------------------ the two element lookups
\* find_element_by_any_selector(driver, selectors) of the recorder takes a
\* list of selectors; what the driver gives for one of them: find_element
\* raises (no match, an invalid selector), or returns an element that is
\* displayed, is not displayed, or whose is_displayed() raises.
LookupOutcomes == {"raises", "hidden", "stale", "visible"}

AcceptsWithoutVisibility(outcome) == outcome # "raises"

\* `if element and element.is_displayed(): return element`; whatever is
\* raised is swallowed by the bare except, which continues the loop.
Accepts(outcome) == outcome = "visible"

AcceptsOnlyUniqueMatch(outcome, count) == Accepts(outcome) /\ count = 1

\* The test is made on the one element find_element returns, the first of
\* the `count` elements the selector matches: the count plays no part.
AcceptsMatch(outcome, count) == Accepts(outcome)

\* How many elements a selector matches when find_element gives `outcome`:
\* none when it raises, else one or more (two stand for "more than one").
MatchCounts(outcome) == IF outcome = "raises" THEN {0} ELSE {1, 2}

\* BrowserUtils.wait_for_element(selector) of the uploader takes one CSS
\* selector, a comma-separated group of m alternatives.  The document as the
\* lookup meets it: the elements some alternative matches, in document
\* order, each with the alternative that matches it and its visibility.
ElementStates == {"hidden", "visible"}
Documents(m) ==
  UNION {[1..k -> [alt : 1..m, state : ElementStates]] : k \in 0..2}

\* fn: "any" (find_element_by_any_selector) or "wait" (wait_for_element);
\* pc: "idle", "scan", "done" or "raised"; m: the number of candidates;
\* tried: what the driver gave for each selector tried, in the order tried;
\* counts: how many elements each of them matches;
\* doc: the document wait_for_element met; result: the position of the
\* candidate whose element is returned, 0 for None; element: the state of the
\* element returned.
NoResolution ==
  [fn |-> "any", m |-> 0, pc |-> "idle", tried |-> <<>>, counts |-> <<>>,
   doc |-> <<>>, result |-> 0, element |-> "none"]

\* What a finished lookup hands to its caller: the element, or None.  None
\* is all a caller gets when nothing was found.
ReturnValue(r) ==
  IF r.result = 0 THEN [kind |-> "None"]
  ELSE [kind |-> "WebElement", state |-> r.element]

\* -------------------------------------------------- the selector generators
\* An element as the generators read it: which attributes it carries (an
\* absent attribute reads as None or ''), whether its tag is input, and its
\* class attribute: absent, present but blank, or naming some class.
Snapshots ==
  [id : BOOLEAN, name : BOOLEAN, testid : BOOLEAN, datainput : BOOLEAN,
   type : BOOLEAN, placeholder : BOOLEAN, aria : BOOLEAN,
   class : {"none", "blank", "some"}, isInput : BOOLEAN]

\* selectors.append(c) under `if cond`.
AppendIf(s, cond, c) == IF cond THEN Append(s, c) ELSE s

generate_css_selectors_label_first(e) ==
  LET s1 == AppendIf(<<>>, e.id, "id")
      s2 == AppendIf(s1, e.name, "name")
      s3 == AppendIf(s2, e.testid, "testid")
      s4 == AppendIf(s3, e.datainput, "datainput")
      s5 == AppendIf(s4, e.type /\ e.isInput, "type")
      s6 == AppendIf(s5, e.aria, "aria")
      s7 == AppendIf(s6, e.placeholder, "placeholder")
  IN  IF e.class = "blank" THEN [raised |-> TRUE, selectors |-> <<>>]
      ELSE [raised |-> FALSE, selectors |-> AppendIf(s7, e.class = "some", "class")]

\* generate_css_selectors(element): the selectors by the attribute they are
\* built from, in the order of the eight `if` blocks.  A class attribute of
\* blanks only is truthy, its split() is empty, and split()[0] raises
\* IndexError.
generate_css_selectors(e) ==
  LET s1 == AppendIf(<<>>, e.id, "id")
      s2 == AppendIf(s1, e.name, "name")
      s3 == AppendIf(s2, e.testid, "testid")
      s4 == AppendIf(s3, e.datainput, "datainput")
      s5 == AppendIf(s4, e.type /\ e.isInput, "type")
      s6 == AppendIf(s5, e.placeholder, "placeholder")
      s7 == AppendIf(s6, e.aria, "aria")
  IN  IF e.class = "blank" THEN [raised |-> TRUE, selectors |-> <<>>]
      ELSE [raised |-> FALSE, selectors |-> AppendIf(s7, e.class = "some", "class")]

\* all_selectors of record_current_element, built from the data of the last
\* click.
all_selectors(e) ==
  LET s1 == AppendIf(<<>>, e.id, "id")
      s2 == AppendIf(s1, e.name, "name")
      s3 == AppendIf(s2, e.testid, "testid")
      s4 == AppendIf(s3, e.placeholder, "placeholder")
  IN  [raised |-> FALSE, selectors |-> AppendIf(s4, e.aria, "aria")]

\* fn: "css" (generate_css_selectors) or "click" (all_selectors of
\* record_current_element); pc: "idle", "called" or "done".
NoGeneration ==
  [fn |-> "css", pc |-> "idle",
   snapshot |-> [id |-> FALSE, name |-> FALSE, testid |-> FALSE,
                 datainput |-> FALSE, type |-> FALSE, placeholder |-> FALSE,
                 aria |-> FALSE, class |-> "none", isInput |-> FALSE],
   out |-> [raised |-> FALSE, selectors |-> <<>>]]

\* ----------------------------------------------- recording and resolving
\* The document as run_auto_mode meets it for one name: what the driver gives
\* for each of the name's selectors, in their order.  It is the same
\* document for every lookup of the run.
SelectorDocs == UNION {[1..m -> LookupOutcomes] : m \in 1..MaxCandidates}

\* find_element_by_any_selector(driver, possible_selectors): the position of
\* the selector whose element is returned, 0 for None.
FoundAt(doc) ==
  IF \E k \in 1..Len(doc) : Accepts(doc[k])
    THEN CHOOSE k \in 1..Len(doc) :
           Accepts(doc[k]) /\ \A j \in 1..(k - 1) : ~Accepts(doc[j])
    ELSE 0

\* The loop "find the successful selector" of run_auto_mode: the first
\* selector for which driver.find_element does not raise; that the element
\* is displayed is not asked.  0 for None.
PrimaryAt(doc) ==
  IF \E j \in 1..Len(doc) : doc[j] # "raises"
    THEN CHOOSE j \in 1..Len(doc) :
           doc[j] # "raises" /\ \A i \in 1..(j - 1) : doc[i] = "raises"
    ELSE 0

\* "primary": primary or all_selectors[0] if all_selectors else "" -- the
\* conditional expression binds weaker than `or`: with no generated
\* selector the primary is "", whatever the loop found.  A primary is "",
\* <<"listed", j>> (the j-th selector of the name) or <<"generated", c>>.
AutoPrimary(doc, generated) ==
  IF generated = <<>> THEN ""
  ELSE IF PrimaryAt(doc) # 0 THEN <<"listed", PrimaryAt(doc)>>
  ELSE <<"generated", generated[1]>>

\* `selector` of record_current_element: the if/elif chain over the data of
\* the last click, the tag name when no attribute is there.
ClickPrimary(e) ==
  IF e.id THEN <<"generated", "id">>
  ELSE IF e.name THEN <<"generated", "name">>
  ELSE IF e.testid THEN <<"generated", "testid">>
  ELSE IF e.datainput THEN <<"generated", "datainput">>
  ELSE IF e.placeholder THEN <<"generated", "placeholder">>
  ELSE <<"generated", "tag">>

\* What stands in the document before the clicked element and is matched by
\* the recorded primary: nothing, or an element hidden or displayed.
Shadows == {"none", "hidden", "visible"}

\* find_element_by_any_selector(driver, [primary]) in the same document,
\* against the element the recipe was made from: "original", "other" or
\* "nothing" (None).
ResolveAgain(d) ==
  IF d.primary = "" THEN "nothing"
  ELSE IF d.mode = "auto"
    THEN IF ~Accepts(d.doc[d.primary[2]]) THEN "nothing"
         ELSE IF d.primary[2] = d.original THEN "original"
         ELSE "other"
    ELSE CASE d.shadow = "none" -> "original"
           [] d.shadow = "hidden" -> "nothing"
           [] d.shadow = "visible" -> "other"

\* mode: "auto" (run_auto_mode, one name) or "click"
\* (record_current_element); pc: "idle", "look", "not_found", "raised",
\* "stored" or "resolved"; original: in auto mode the position of the
\* selector whose element the recipe is made from; back: what resolving the
\* primary again gave.
NoDiscovery ==
  [mode |-> "auto", pc |-> "idle", doc |-> <<>>, original |-> 0,
   primary |-> "", shadow |-> "none", back |-> "pending"]

\* ------------------------------------------------------ SelectorRecorder
\* list(COMMON_ETSY_ELEMENTS.keys()), in the order of the dict literal.
ElementTypes ==
  <<"login_email", "login_password", "login_button", "add_listing",
    "title_input", "description_editor", "price_input", "quantity_input",
    "image_upload", "image_dropzone", "tags_input", "digital_checkbox",
    "category_button", "publish_button", "save_draft_button",
    "shop_section_select">>

\* The table print_instructions shows the operator.
PrintedNames ==
  [key \in {"1", "2", "3", "4", "5", "6", "7", "8", "9", "0"} |->
     CASE key = "1" -> "title_input"
       [] key = "2" -> "description_editor"
       [] key = "3" -> "price_input"
       [] key = "4" -> "quantity_input"
       [] key = "5" -> "image_upload"
       [] key = "6" -> "tags_input"
       [] key = "7" -> "digital_checkbox"
       [] key = "8" -> "category_button"
       [] key = "9" -> "publish_button"
       [] key = "0" -> "save_draft_button"]

Digits == DOMAIN PrintedNames

\* int(key)
IntOf(key) ==
  CASE key = "0" -> 0 [] key = "1" -> 1 [] key = "2" -> 2 [] key = "3" -> 3
    [] key = "4" -> 4 [] key = "5" -> 5 [] key = "6" -> 6 [] key = "7" -> 7
    [] key = "8" -> 8 [] key = "9" -> 9

\* idx = int(key) - 1 if key != '0' else 9; element_types[idx], the list
\* being indexed from 0.
TypeOfDigit(key) ==
  LET idx == IF key # "0" THEN IntOf(key) - 1 ELSE 9
  IN  ElementTypes[idx + 1]

\* generate_xpath(element): the first of id, name, placeholder, aria-label,
\* class that is there, the tag alone otherwise.
generate_xpath_of_attributes(e) ==
  IF e.id THEN "id" ELSE IF e.name THEN "name"
  ELSE IF e.placeholder THEN "placeholder" ELSE IF e.aria THEN "aria"
  ELSE IF e.class = "some" THEN "class" ELSE ""

generate_xpath(e) ==
  IF e.id THEN "id" ELSE IF e.name THEN "name"
  ELSE IF e.placeholder THEN "placeholder" ELSE IF e.aria THEN "aria"
  ELSE IF e.class = "some" THEN "class" ELSE "tag"

\* generate_xpath_from_data(element_data)
generate_xpath_from_data(e) ==
  IF e.id THEN "id" ELSE IF e.name THEN "name"
  ELSE IF e.testid THEN "testid" ELSE IF e.placeholder THEN "placeholder"
  ELSE IF e.aria THEN "aria" ELSE "tag"

\* An entry of self.selectors: the name and, of its recipe, whether the
\* primary, the fallback list and the xpath are non-empty; made: 0 when
\* run_auto_mode made it, n when the n-th bind of the loop did.
\*
\* The recipe run_auto_mode stores for an element located in `doc`; `same`:
\* the listed selector that became the primary is also among the generated
\* ones, and is filtered from the fallback list.
AutoEntry(name, doc, e, same) ==
  LET gen == generate_css_selectors(e).selectors
      left == Len(gen) - (IF same /\ gen # <<>> THEN 1 ELSE 0)
  IN  [name |-> name,
       primary |-> AutoPrimary(doc, gen) # "",
       fallback |-> left > 0,
       xpath |-> generate_xpath(e) # "",
       made |-> 0]

\* The recipe record_current_element stores for the clicked element e.
ClickEntry(name, e, n) ==
  [name |-> name,
   primary |-> ClickPrimary(e)[2] # "",
   fallback |-> SelectSeq(all_selectors(e).selectors,
                          LAMBDA c : c # ClickPrimary(e)[2]) # <<>>,
   xpath |-> generate_xpath_from_data(e) # "",
   made |-> n]

NamesIn(sel) == {sel[i].name : i \in 1..Len(sel)}

\* self.selectors[name] = entry: a dict keeps the place of a key it already
\* holds and puts a new key last.
Put(sel, entry) ==
  IF entry.name \in NamesIn(sel)
    THEN [i \in 1..Len(sel) |->
            IF sel[i].name = entry.name THEN entry ELSE sel[i]]
    ELSE Append(sel, entry)

\* pc: "idle", "start", "prompt" (input() of the loop), "stopped" or
\* "raised"; selectors: self.selectors in dict order; binds: bindings made
\* by the loop; lastBound: the name the latest binding command bound, "none"
\* before any and after a delete; lastKey: the command read last; file: the
\* selectors file, whether this run wrote it and what it wrote.
NoRecorder ==
  [pc |-> "idle", mode |-> "both", selectors |-> <<>>, binds |-> 0,
   lastBound |-> "none", lastKey |-> "none", clicked |-> FALSE,
   file |-> [written |-> FALSE, content |-> <<>>]]

\* ------------------------------------------------------- the tag limits
\* A tag string as its ','-parts, told apart by their position: parts[k] says
\* whether part k is a tag (TRUE) or blank (FALSE: '' or white space, which
\* strip() makes '').  split(',') gives at least one part.
\* pc: "idle", "drawn", "validated", "built" or "entered"; warned:
\* validate_products gave its "Too many tags" warning; built: the parts
\* parse_tags kept; entered: the parts the loop of _add_tags goes through.
NoTagCheck ==
  [pc |-> "idle", parts |-> <<>>, warned |-> FALSE, built |-> <<>>,
   entered |-> <<>>]

\* ------------------------------------------------------- the constructors
\* pc: "idle", "running", "raised" or "constructed"; entry: the class
\* constructed; i: the statement about to run; attrs: the attributes
\* assigned so far; handlers: the handlers of the logger 'etsy_uploader',
\* which logging keeps for the process; dirExists: the log directory is
\* there; built: constructions begun; error: what was raised.
NoConstruction ==
  [pc |-> "idle", entry |-> "none", i |-> 0, attrs |-> {}, handlers |-> 0,
   dirExists |-> FALSE, configFound |-> FALSE, headless |-> FALSE,
   built |-> 0, error |-> "none"]

\* No call of a method of the uploader or the recorder is in progress.
CallsAtRest ==
  /\ tagsRun = NoTagsRun
  /\ imagesRun = NoImagesRun
  /\ resolution = NoResolution
  /\ generation = NoGeneration
  /\ discovery = NoDiscovery
  /\ rec = NoRecorder

\* No call of a step taken on its own is in progress.
StepsAtRest ==
  /\ tagsRun = NoTagsRun
  /\ imagesRun = NoImagesRun
  /\ resolution = NoResolution
  /\ generation = NoGeneration
  /\ discovery = NoDiscovery
  /\ rec = NoRecorder
  /\ tagCheck = NoTagCheck
  /\ construction = NoConstruction

\* upload_single_product's frame state.
\*   pc          "none", a step of StepOrder (about to run), "retry_delay"
\*               (_handle_retry's random_delay), or "returned"
\*   retry_count retry_count of the innermost frame
\*   stepLog     steps started in the current attempt, in order
\*   lastOutcome outcome of the step run last in the current attempt
\*   calls       driver calls of _publish_listing in the current attempt
\*   attempts    invocations of upload_single_product for the current item
\*   navCount    calls of navigate_to_add_listing for the current item
\*   fails       attempts of the current item that failed
\*   delays      the windows <<min, max>> of the random_delay calls that
\*               _handle_retry made for the current item, in order
NoWf ==
  [pc |-> "none", retry_count |-> 0, stepLog |-> <<>>, lastOutcome |-> "none",
   calls |-> <<>>, attempts |-> 0, navCount |-> 0, fails |-> 0,
   delays |-> <<>>]

\* upload_single_product(product): retry_count defaults to 0.
FreshWf ==
  [pc |-> "navigate", retry_count |-> 0, stepLog |-> <<>>,
   lastOutcome |-> "none", calls |-> <<>>, attempts |-> 1, navCount |-> 0,
   fails |-> 0, delays |-> <<>>]

\* The window _handle_retry gives random_delay before the retry that follows
\* the attempt with this retry_count: random.uniform(5, 10), whatever the
\* count.
RetryDelayMin == 5
RetryDelayMax == 10

RetryDelayWindowEscalating(retry_count) ==
  <<RetryDelayMin * (retry_count + 1), RetryDelayMax * (retry_count + 1)>>

RetryDelayWindow(retry_count) == <<RetryDelayMin, RetryDelayMax>>

MayRetryInclusive(rc, mx) == rc <= mx

\* _handle_retry's test, which the except handler makes too:
\* retry_count < max_retries.
MayRetry(rc, mx) == rc < mx

\* products[start_index:] : the index of its first row, and its length.
SliceLo(n, s) == IF s >= 0 THEN Min(s, n) ELSE Max(n + s, 0)
SliceLen(n, s) == n - SliceLo(n, s)

\* The 0-based row of the item at position k.
RowAt(k) ==
  IF mode = "bulk" THEN SliceLo(n_products, start_index) + k
  ELSE IF product_id >= 0 THEN product_id ELSE n_products + product_id

\* --------------------------------------------------------------- initially
\* EtsyUploader.__init__, the configuration giving one of `retries` as
\* max_retries.
NewUploaderOf(retries) ==
  /\ max_retries \in retries
  /\ runs = 0
  /\ mode = "none"
  /\ pc = "idle"
  /\ raisedBy = "none"
  /\ n_products = 0
  /\ product = NoRecord
  /\ start_index = 0
  /\ product_id = 0
  /\ pos = 0
  /\ stats = [total |-> 0, success |-> 0, failed |-> 0]
  /\ driver = "none"
  /\ openSessions = 0
  /\ summaryPrinted = FALSE
  /\ loggedIn = "none"
  /\ wf = NoWf
  /\ formFilled = FALSE
  /\ lastResult = "none"
  /\ invoked = <<>>
  /\ returned = 0

NewUploader == NewUploaderOf(0..MaxRetriesBound)

Init ==
  /\ NewUploader
  /\ stepOutcomes = <<>>
  /\ sleeps = <<>>
  /\ submitPage = NoPage
  /\ StepsAtRest

\* ------------------------------------------------- pieces of the handlers
\* cleanup(): quit the driver self.driver refers to, if there is one.
Cleanup ==
  /\ driver' = IF driver = "none" THEN "none" ELSE "quit"
  /\ openSessions' = IF driver = "open" THEN openSessions - 1 ELSE openSessions

FinishUnreported ==
  /\ summaryPrinted' = summaryPrinted
  /\ Cleanup
  /\ pc' = "done"

\* The end of upload_bulk / upload_single: _print_summary(), cleanup().
Finish ==
  /\ summaryPrinted' = TRUE
  /\ Cleanup
  /\ pc' = "done"

\* The caller enters upload_single_product for the item at position k.
BeginItem(k) ==
  /\ pc' = "item"
  /\ pos' = k
  /\ product' \in Records
  /\ wf' = FreshWf
  /\ invoked' = Append(invoked, RowAt(k))
  /\ UNCHANGED <<driver, openSessions, summaryPrinted>>

CountBoth(ok) == [stats EXCEPT !.success = @ + 1, !.failed = @ + 1]

\* The if/else on the workflow's result.
Count(ok) ==
  IF ok THEN [stats EXCEPT !.success = @ + 1]
        ELSE [stats EXCEPT !.failed = @ + 1]

DelayAfterEveryItem == start_index + pos < n_products

\* `if i < len(products) - 1`, i being enumerate's label of the item.
DelayAfterItem == start_index + pos < n_products - 1

MoreItemsUnlessFailed(ok) ==
  ok /\ pos + 1 < SliceLen(n_products, start_index)

\* The for loop has a next item; the result of the item just done plays no
\* part (the loop has no break).
MoreItems(ok) == pos + 1 < SliceLen(n_products, start_index)

\* upload_single_product, its frame being w, returns `ok` to its caller; the
\* caller counts it and runs on to its next blocking point.
ItemDone(ok, w) ==
  /\ stats' = Count(ok)
  /\ lastResult' = IF ok THEN "true" ELSE "false"
  /\ returned' = returned + 1
  /\ IF mode = "bulk" /\ DelayAfterItem
       THEN /\ pc' = "delay"
            /\ wf' = [w EXCEPT !.pc = "returned"]
            /\ UNCHANGED <<pos, product, invoked, driver, openSessions,
                           summaryPrinted>>
       ELSE IF mode = "bulk" /\ MoreItems(ok)
              THEN BeginItem(pos + 1)
              ELSE /\ Finish
                   /\ wf' = [w EXCEPT !.pc = "returned"]
                   /\ UNCHANGED <<pos, product, invoked>>
  /\ UNCHANGED <<callVars, raisedBy, loggedIn>>

\* An attempt has failed, its frame being w: _handle_retry, or the except
\* handler of upload_single_product, which makes _handle_retry's test itself
\* before calling it.  With budget left the frame sleeps random_delay(5, 10)
\* and then calls upload_single_product(product, retry_count + 1); the value
\* of that call is returned unchanged through every frame.
FailAttempt(w) ==
  LET f == [w EXCEPT !.fails = @ + 1] IN
  IF MayRetry(w.retry_count, max_retries)
    THEN /\ wf' = [f EXCEPT !.pc = "retry_delay",
                            !.delays =
                              Append(@, RetryDelayWindow(w.retry_count))]
         /\ UNCHANGED <<callVars, pc, raisedBy, product, pos, stats, driver,
                        openSessions, summaryPrinted, loggedIn, lastResult,
                        invoked, returned>>
    ELSE ItemDone(FALSE, f)

\* The step wf.pc has run and come to `outcome`.
Ran(outcome) ==
  [wf EXCEPT !.stepLog = Append(@, wf.pc), !.lastOutcome = outcome]

\* ------------------------------------------------------- the calls (main)
\* A caller that holds the uploader calls it when no call is in progress,
\* whether the call before returned or raised.
NewCall(m, n, s, p) ==
  /\ pc \in {"idle", "done", "raised"}
  /\ runs < MaxRuns
  /\ runs' = runs + 1
  /\ mode' = m
  /\ n_products' = n
  /\ start_index' = s
  /\ product_id' = p
  /\ product' = NoRecord
  /\ pos' = 0
  /\ raisedBy' = "none"
  /\ summaryPrinted' = FALSE
  /\ loggedIn' = "none"
  /\ wf' = NoWf
  /\ lastResult' = "none"
  /\ invoked' = <<>>
  /\ UNCHANGED <<max_retries, driver, openSessions, formFilled, returned>>

CallBulkTotalOfSlice(counts, offsets) ==
  \E n \in counts, s \in offsets :
    /\ NewCall("bulk", n, s, 0)
    /\ IF n = 0
         THEN pc' = "done" /\ stats' = stats
         ELSE pc' = "setup" /\ stats' = [stats EXCEPT !.total = SliceLen(n, s)]

\* upload_bulk up to setup_driver(), the input having one of `counts` rows
\* and the offset being one of `offsets`: an empty input returns at once.
CallBulkOf(counts, offsets) ==
  \E n \in counts, s \in offsets :
    /\ NewCall("bulk", n, s, 0)
    /\ IF n = 0
         THEN pc' = "done" /\ stats' = stats
         ELSE pc' = "setup" /\ stats' = [stats EXCEPT !.total = n]

CallBulk == CallBulkOf(RowCounts, StartIndices)

\* upload_single up to setup_driver(), products.csv having one of `counts`
\* rows and product_id being one of `ids`.
CallSingleOf(counts, ids) ==
  \E n \in counts, p \in ids :
    /\ NewCall("single", n, 0, p)
    /\ IF n = 0 \/ p >= n
         THEN pc' = "done" /\ stats' = stats
         ELSE pc' = "setup" /\ stats' = [stats EXCEPT !.total = 1]

CallSingle == CallSingleOf(RowCounts, ProductIds)

\* setup_driver(): webdriver.Chrome(...) returns a session, a browser with no
\* page loaded.
SetupDriverOk ==
  /\ pc = "setup"
  /\ pc' = "login"
  /\ driver' = "open"
  /\ openSessions' = openSessions + 1
  /\ formFilled' = FALSE
  /\ UNCHANGED <<callVars, raisedBy, product, pos, stats, summaryPrinted,
                 loggedIn, wf, lastResult, invoked, returned>>

\* setup_driver(): webdriver.Chrome(...) raises; the handler re-raises.
SetupDriverFail ==
  /\ pc = "setup"
  /\ pc' = "raised"
  /\ raisedBy' = "setup"
  /\ UNCHANGED <<callVars, product, pos, stats, driver, openSessions,
                 summaryPrinted, loggedIn, wf, formFilled, lastResult,
                 invoked, returned>>

\* login() returns True; the caller reaches its first item.  upload_single
\* indexes products[product_id], which raises IndexError below -len.
LoginOk ==
  /\ pc = "login"
  /\ loggedIn' = "ok"
  /\ UNCHANGED <<callVars, stats, formFilled, lastResult, returned>>
  /\ IF mode = "bulk"
       THEN IF SliceLen(n_products, start_index) > 0
              THEN BeginItem(0) /\ raisedBy' = raisedBy
              ELSE /\ Finish
                   /\ UNCHANGED <<pos, product, wf, invoked, raisedBy>>
       ELSE IF RowAt(0) >= 0
              THEN BeginItem(0) /\ raisedBy' = raisedBy
              ELSE /\ pc' = "raised"
                   /\ raisedBy' = "index"
                   /\ UNCHANGED <<pos, product, wf, invoked, driver,
                                  openSessions, summaryPrinted>>

LoginFailGoesOn ==
  /\ pc = "login"
  /\ loggedIn' = "failed"
  /\ IF SliceLen(n_products, start_index) > 0
       THEN BeginItem(0)
       ELSE /\ Finish
            /\ UNCHANGED <<pos, product, wf, invoked>>
  /\ UNCHANGED <<callVars, raisedBy, stats, formFilled, lastResult, returned>>

LoginFailMarksAll ==
  /\ pc = "login"
  /\ loggedIn' = "failed"
  /\ Cleanup
  /\ pc' = "done"
  /\ stats' = [stats EXCEPT !.failed = @ + stats.total]
  /\ UNCHANGED <<callVars, raisedBy, product, pos, summaryPrinted, wf,
                 formFilled, lastResult, invoked, returned>>

\* login() returns False (the URL still holds "signin", or an exception was
\* caught): "Login failed. Exiting.", cleanup(), return.
LoginFail ==
  /\ pc = "login"
  /\ loggedIn' = "failed"
  /\ Cleanup
  /\ pc' = "done"
  /\ UNCHANGED <<callVars, raisedBy, product, pos, stats, summaryPrinted, wf,
                 formFilled, lastResult, invoked, returned>>

\* KeyboardInterrupt at a blocking point of login, of a workflow step, of
\* the retry delay or of the delay between products.  No handler on the way
\* out catches it (`except Exception` does not; upload_bulk, upload_single
\* and main have no try), so it leaves the call.  (An interrupt that lands
\* in a bare `except:` -- the per-tag try of _add_tags, the continue-button
\* try of login -- is swallowed there and changes nothing here.)
Interrupt ==
  /\ pc \in {"login", "item", "delay"}
  /\ pc' = "raised"
  /\ raisedBy' = "interrupt"
  /\ UNCHANGED <<callVars, product, pos, stats, driver, openSessions,
                 summaryPrinted, loggedIn, wf, formFilled, lastResult,
                 invoked, returned>>

\* A loop that would log in again before the next product.
DelayDoneLoggingIn ==
  /\ pc = "delay"
  /\ pc' = "login"
  /\ UNCHANGED <<callVars, raisedBy, product, pos, stats, driver,
                 openSessions, summaryPrinted, loggedIn, wf, formFilled,
                 lastResult, invoked, returned>>

\* time.sleep(delay_between_products) is over: the next iteration, or the
\* end of the loop.
DelayDone ==
  /\ pc = "delay"
  /\ IF MoreItems(lastResult = "true")
       THEN BeginItem(pos + 1)
       ELSE /\ Finish
            /\ UNCHANGED <<pos, product, wf, invoked>>
  /\ UNCHANGED <<callVars, raisedBy, loggedIn, stats, formFilled, lastResult,
                 returned>>

\* ------------------------------------------------- upload_single_product
\* Left alone by a step of the workflow that does not end it.
aroundWf == <<callVars, pc, raisedBy, product, pos, stats, driver,
              openSessions, summaryPrinted, loggedIn, lastResult, invoked,
              returned>>

\* The "Processing" print slices the title: a title that is no string raises
\* TypeError inside the try block, before navigate_to_add_listing.
TitleErrorRaises ==
  /\ pc = "item"
  /\ wf.pc = "navigate"
  /\ ~product.titleIsStr
  /\ formFilled' = formFilled
  /\ IF MayRetry(wf.retry_count, max_retries)
       THEN FailAttempt(wf)
       ELSE /\ pc' = "raised"
            /\ raisedBy' = "error"
            /\ wf' = [wf EXCEPT !.fails = @ + 1]
            /\ UNCHANGED <<callVars, product, pos, stats, driver,
                           openSessions, summaryPrinted, loggedIn,
                           lastResult, invoked, returned>>

TitleErrorFailsAtOnce ==
  /\ pc = "item"
  /\ wf.pc = "navigate"
  /\ ~product.titleIsStr
  /\ formFilled' = formFilled
  /\ ItemDone(FALSE, [wf EXCEPT !.fails = @ + 1])

TitleError ==
  /\ pc = "item"
  /\ wf.pc = "navigate"
  /\ ~product.titleIsStr
  /\ formFilled' = formFilled
  /\ FailAttempt(wf)

\* navigate_to_add_listing() returns True: driver.get loaded the new-listing
\* page, a blank form.
NavigateOk ==
  /\ pc = "item"
  /\ wf.pc = "navigate"
  /\ product.titleIsStr
  /\ wf' = [Ran("applied") EXCEPT !.pc = NextStep("navigate"),
                                  !.navCount = @ + 1]
  /\ formFilled' = FALSE
  /\ UNCHANGED aroundWf

\* navigate_to_add_listing() returns False: driver.get raised.
NavigateFail ==
  /\ pc = "item"
  /\ wf.pc = "navigate"
  /\ product.titleIsStr
  /\ formFilled' = formFilled
  /\ FailAttempt([Ran("error") EXCEPT !.navCount = @ + 1])

FillStepRequired ==
  /\ pc = "item"
  /\ wf.pc \in FillSteps
  /\ \E outcome \in FillOutcomes :
       /\ formFilled' = (formFilled \/ outcome = "applied")
       /\ IF outcome = "skipped"
            THEN FailAttempt(Ran(outcome))
            ELSE /\ wf' = [Ran(outcome) EXCEPT !.pc = NextStep(wf.pc)]
                 /\ UNCHANGED aroundWf

FillStepErrorAbandons ==
  /\ pc = "item"
  /\ wf.pc \in FillSteps
  /\ \E outcome \in FillOutcomes :
       /\ formFilled' = (formFilled \/ outcome = "applied")
       /\ IF outcome = "error"
            THEN FailAttempt(Ran(outcome))
            ELSE /\ wf' = [Ran(outcome) EXCEPT !.pc = NextStep(wf.pc)]
                 /\ UNCHANGED aroundWf

\* _fill_title ... _set_digital_options: each catches every Exception of its
\* body and returns a bool, which upload_single_product does not look at.
FillStep ==
  /\ pc = "item"
  /\ wf.pc \in FillSteps
  /\ \E outcome \in FillOutcomes :
       /\ wf' = [Ran(outcome) EXCEPT !.pc = NextStep(wf.pc)]
       /\ formFilled' = (formFilled \/ outcome = "applied")
  /\ UNCHANGED aroundWf

\* The publish step has run on `page`.
Submitted(page) ==
  [Ran(PublishListing(page).outcome) EXCEPT !.calls = PublishListing(page).calls]

\* _publish_listing() returns True: "Published" is printed, return True.
PublishOk(page) ==
  /\ pc = "item"
  /\ wf.pc = "publish"
  /\ PublishListing(page).outcome \in PublishOutcomes
  /\ PublishReturns(PublishListing(page).outcome)
  /\ ItemDone(TRUE, Submitted(page))
  /\ formFilled' = formFilled

\* _publish_listing() returns False.
PublishFail(page) ==
  /\ pc = "item"
  /\ wf.pc = "publish"
  /\ PublishListing(page).outcome \in PublishOutcomes
  /\ ~PublishReturns(PublishListing(page).outcome)
  /\ FailAttempt(Submitted(page))
  /\ formFilled' = formFilled

RetryResumes ==
  /\ pc = "item"
  /\ wf.pc = "retry_delay"
  /\ wf' = [wf EXCEPT !.pc = IF wf.stepLog = <<>> THEN "navigate"
                               ELSE wf.stepLog[Len(wf.stepLog)],
                      !.retry_count = @ + 1,
                      !.attempts = @ + 1,
                      !.stepLog = IF @ = <<>> THEN @
                                  ELSE SubSeq(@, 1, Len(@) - 1)]
  /\ UNCHANGED <<aroundWf, formFilled>>

\* _handle_retry: random_delay(5, 10) is over;
\* upload_single_product(product, retry_count + 1) is entered.
Retry ==
  /\ pc = "item"
  /\ wf.pc = "retry_delay"
  /\ wf' = [wf EXCEPT !.pc = "navigate",
                      !.retry_count = @ + 1,
                      !.attempts = @ + 1,
                      !.stepLog = <<>>,
                      !.lastOutcome = "none",
                      !.calls = <<>>]
  /\ UNCHANGED <<aroundWf, formFilled>>

\* ------------------------------------------------------------------ main
ExitStatusOfFailures ==
  IF pc = "raised" \/ (pc = "done" /\ lastResult = "false") THEN 1 ELSE 0

\* The status the process of main() ends with, once the call has returned
\* or raised: main calls upload_bulk / upload_single, ignores what they did
\* and returns (status 0); it has no try, so an exception that leaves the
\* call ends the interpreter with a non-zero status, taken here as 1.
ExitStatus == IF pc = "raised" THEN 1 ELSE 0

Next ==
  \/ CallBulk /\ UNCHANGED beside
  \/ CallSingle /\ UNCHANGED beside
  \/ SetupDriverOk /\ UNCHANGED beside
  \/ SetupDriverFail /\ UNCHANGED beside
  \/ LoginOk /\ UNCHANGED beside
  \/ LoginFail /\ UNCHANGED beside
  \/ Interrupt /\ UNCHANGED beside
  \/ DelayDone /\ UNCHANGED beside
  \/ TitleError /\ UNCHANGED beside
  \/ NavigateOk /\ UNCHANGED beside
  \/ NavigateFail /\ UNCHANGED beside
  \/ FillStep /\ UNCHANGED beside
  \/ \E page \in Pages : PublishOk(page) /\ UNCHANGED beside
  \/ \E page \in Pages : PublishFail(page) /\ UNCHANGED beside
  \/ Retry /\ UNCHANGED beside

Spec == Init /\ [][Next]_vars

\* ---------------------------------------------- upload_bulk, a long batch
\* One call of upload_bulk over up to MaxBatch rows, each call of
\* upload_single_product taken as one step, with the history of the sleeps
\* of upload_bulk's loop.
BatchRowCounts == 0..MaxBatch
BatchStartIndices == (0 - 1)..(MaxBatch + 1)

InitBatch ==
  /\ NewUploader
  /\ max_retries = 0
  /\ stepOutcomes = <<>>
  /\ sleeps = <<>>
  /\ submitPage = NoPage
  /\ StepsAtRest

CallLongBulk ==
  /\ runs = 0
  /\ CallBulkOf(BatchRowCounts, BatchStartIndices)

\* upload_single_product(product) from its entry to its return: True takes a
\* title that can be sliced (the TypeError of the "Processing" print fails
\* every attempt).
WholeItem ==
  /\ pc = "item"
  /\ wf.pc = "navigate"
  /\ \E ok \in BOOLEAN :
       /\ ok => product.titleIsStr
       /\ ItemDone(ok, wf)
  /\ formFilled' = formFilled

\* time.sleep(delay) at the end of an iteration, i being the item's label.
Slept ==
  sleeps' = IF pc' = "delay" THEN Append(sleeps, start_index + pos) ELSE sleeps

NextBatch ==
  \/ CallLongBulk /\ UNCHANGED beside
  \/ SetupDriverOk /\ UNCHANGED beside
  \/ LoginOk /\ UNCHANGED beside
  \/ WholeItem /\ Slept
       /\ UNCHANGED <<stepOutcomes, submitPage>> /\ UNCHANGED steps
  \/ DelayDone /\ UNCHANGED beside

SpecBatch == InitBatch /\ [][NextBatch]_vars

\* ------------------------------------------- one listing, its Submit step
\* upload_single(0) on a products.csv of one row, run without interruption,
\* with the history of the page _publish_listing met.
InitListing ==
  /\ NewUploader
  /\ stepOutcomes = <<>>
  /\ sleeps = <<>>
  /\ submitPage = NoPage
  /\ StepsAtRest

CallOne ==
  /\ runs = 0
  /\ CallSingleOf({1}, {0})

NextSubmit ==
  \/ CallOne /\ UNCHANGED beside
  \/ SetupDriverOk /\ UNCHANGED beside
  \/ LoginOk /\ UNCHANGED beside
  \/ TitleError /\ UNCHANGED beside
  \/ NavigateOk /\ UNCHANGED beside
  \/ NavigateFail /\ UNCHANGED beside
  \/ FillStep /\ UNCHANGED beside
  \/ \E page \in Pages :
       PublishOk(page) /\ submitPage' = page /\ UNCHANGED <<stepOutcomes, sleeps>> /\ UNCHANGED steps
  \/ \E page \in Pages :
       PublishFail(page) /\ submitPage' = page /\ UNCHANGED <<stepOutcomes, sleeps>> /\ UNCHANGED steps
  \/ Retry /\ UNCHANGED beside

SpecSubmit == InitListing /\ [][NextSubmit]_vars

\* --------------------------------------------- one listing, many retries
\* The same run under a configuration that allows up to MaxRetriesLong
\* retries.
InitRetries ==
  /\ NewUploaderOf(0..MaxRetriesLong)
  /\ stepOutcomes = <<>>
  /\ sleeps = <<>>
  /\ submitPage = NoPage
  /\ StepsAtRest

NextRetries ==
  \/ CallOne /\ UNCHANGED beside
  \/ SetupDriverOk /\ UNCHANGED beside
  \/ LoginOk /\ UNCHANGED beside
  \/ TitleError /\ UNCHANGED beside
  \/ NavigateOk /\ UNCHANGED beside
  \/ NavigateFail /\ UNCHANGED beside
  \/ FillStep /\ UNCHANGED beside
  \/ \E page \in Pages : PublishOk(page) /\ UNCHANGED beside
  \/ \E page \in Pages : PublishFail(page) /\ UNCHANGED beside
  \/ Retry /\ UNCHANGED beside

SpecRetries == InitRetries /\ [][NextRetries]_vars

\* ---------------------------------------- one listing, its steps' outcomes
\* The same run with the history of what each step of the current attempt
\* came to: stepOutcomes[k] is the outcome of stepLog[k].
Logged ==
  stepOutcomes' =
    IF wf'.stepLog = <<>> THEN <<>>
    ELSE IF Len(wf'.stepLog) = Len(stepOutcomes) + 1
      THEN Append(stepOutcomes, wf'.lastOutcome)
      ELSE stepOutcomes

NextListing ==
  \/ CallOne /\ UNCHANGED beside
  \/ SetupDriverOk /\ UNCHANGED beside
  \/ LoginOk /\ UNCHANGED beside
  \/ TitleError /\ Logged /\ UNCHANGED <<sleeps, submitPage>> /\ UNCHANGED steps
  \/ NavigateOk /\ Logged /\ UNCHANGED <<sleeps, submitPage>> /\ UNCHANGED steps
  \/ NavigateFail /\ Logged /\ UNCHANGED <<sleeps, submitPage>> /\ UNCHANGED steps
  \/ FillStep /\ Logged /\ UNCHANGED <<sleeps, submitPage>> /\ UNCHANGED steps
  \/ \E page \in Pages :
       PublishOk(page) /\ Logged /\ UNCHANGED <<sleeps, submitPage>> /\ UNCHANGED steps
  \/ \E page \in Pages :
       PublishFail(page) /\ Logged /\ UNCHANGED <<sleeps, submitPage>> /\ UNCHANGED steps
  \/ Retry /\ Logged /\ UNCHANGED <<sleeps, submitPage>> /\ UNCHANGED steps

SpecListing == InitListing /\ [][NextListing]_vars

\* -------------------------------------------------- the steps on their own
\* An uploader at rest, for the calls below: each is a method taken on its
\* own, its input drawn at its entry, run without interruption.
AtRest ==
  /\ NewUploader
  /\ max_retries = 0
  /\ stepOutcomes = <<>>
  /\ sleeps = <<>>
  /\ submitPage = NoPage

\* _add_tags(tags) is entered.
InitTags ==
  /\ AtRest
  /\ tagCheck = NoTagCheck
  /\ construction = NoConstruction
  /\ imagesRun = NoImagesRun
  /\ resolution = NoResolution
  /\ generation = NoGeneration
  /\ discovery = NoDiscovery
  /\ rec = NoRecorder
  /\ \E inp \in TagsInputs :
       tagsRun = [NoTagsRun EXCEPT !.input = inp, !.pc = "loop"]

\* One pass of `for tag in tag_list`.
EnterTag ==
  /\ tagsRun.pc = "loop"
  /\ tagsRun.i < Len(TagList(tagsRun.input))
  /\ \E outcome \in TagOutcomes :
       /\ outcome # "committed" => tagsRun.faults < MaxTagFaults
       /\ tagsRun' =
            [tagsRun EXCEPT
               !.i = @ + 1,
               !.events = @ \o TagEvents(TagList(tagsRun.input)[tagsRun.i + 1],
                                         outcome),
               !.faults = IF outcome = "committed" THEN @ ELSE @ + 1]
  /\ UNCHANGED besidesTags

\* The loop is over: return True.
AddTagsReturn ==
  /\ tagsRun.pc = "loop"
  /\ tagsRun.i = Len(TagList(tagsRun.input))
  /\ tagsRun' = [tagsRun EXCEPT !.pc = "done"]
  /\ UNCHANGED besidesTags

NextTags ==
  \/ EnterTag
  \/ AddTagsReturn

SpecTags == InitTags /\ [][NextTags]_vars

\* _upload_images(image_paths) is entered.
InitImages ==
  /\ AtRest
  /\ tagCheck = NoTagCheck
  /\ construction = NoConstruction
  /\ tagsRun = NoTagsRun
  /\ resolution = NoResolution
  /\ generation = NoGeneration
  /\ discovery = NoDiscovery
  /\ rec = NoRecorder
  /\ \E inp \in ImagesInputs :
       imagesRun = [NoImagesRun EXCEPT !.input = inp, !.pc = "start"]

\* Nothing to attach (`if not image_paths`, `if not paths`): return True
\* before the file input is looked up.
NoImages ==
  /\ imagesRun.pc = "start"
  /\ imagesRun.input.n = 0
  /\ imagesRun' = [imagesRun EXCEPT !.pc = "done", !.returns = "true"]
  /\ UNCHANGED besidesImages

\* driver.find_element returns the file input.
FileInputFound ==
  /\ imagesRun.pc = "start"
  /\ imagesRun.input.n > 0
  /\ imagesRun' = [imagesRun EXCEPT !.pc = "loop"]
  /\ UNCHANGED besidesImages

\* driver.find_element raises NoSuchElementException: the except clause
\* returns False.
FileInputMissing ==
  /\ imagesRun.pc = "start"
  /\ imagesRun.input.n > 0
  /\ imagesRun' = [imagesRun EXCEPT !.pc = "done", !.returns = "false"]
  /\ UNCHANGED besidesImages

\* One pass of `for path in paths[:10]`.
AttachPath ==
  /\ imagesRun.pc = "loop"
  /\ imagesRun.i < Len(PathsToAttach(imagesRun.input))
  /\ \E outcome \in PathOutcomes :
       imagesRun' =
         [imagesRun EXCEPT
            !.i = @ + 1,
            !.events =
              Append(@, <<outcome, PathsToAttach(imagesRun.input)[imagesRun.i + 1]>>),
            !.pc = IF outcome = "attach_raised" THEN "done" ELSE @,
            !.returns = IF outcome = "attach_raised" THEN "false" ELSE @]
  /\ UNCHANGED besidesImages

\* The loop is over: "Uploaded", return True.
UploadImagesReturn ==
  /\ imagesRun.pc = "loop"
  /\ imagesRun.i = Len(PathsToAttach(imagesRun.input))
  /\ imagesRun' = [imagesRun EXCEPT !.pc = "done", !.returns = "true"]
  /\ UNCHANGED besidesImages

NextImages ==
  \/ NoImages
  \/ FileInputFound
  \/ FileInputMissing
  \/ AttachPath
  \/ UploadImagesReturn

SpecImages == InitImages /\ [][NextImages]_vars

\* One of the two lookups is entered with m candidates; the uploader's
\* selectors have at least one alternative.
InitResolve ==
  /\ AtRest
  /\ tagCheck = NoTagCheck
  /\ construction = NoConstruction
  /\ tagsRun = NoTagsRun
  /\ imagesRun = NoImagesRun
  /\ generation = NoGeneration
  /\ discovery = NoDiscovery
  /\ rec = NoRecorder
  /\ \E fn \in {"any", "wait"}, m \in 0..MaxCandidates :
       /\ fn = "wait" => m >= 1
       /\ resolution = [NoResolution EXCEPT !.fn = fn, !.m = m, !.pc = "scan"]

\* One pass of `for selector in selectors`.
TrySelector ==
  /\ resolution.fn = "any"
  /\ resolution.pc = "scan"
  /\ Len(resolution.tried) < resolution.m
  /\ \E outcome \in LookupOutcomes :
       \E count \in MatchCounts(outcome) :
         resolution' =
           IF AcceptsMatch(outcome, count)
             THEN [resolution EXCEPT !.tried = Append(@, outcome),
                                     !.counts = Append(@, count),
                                     !.pc = "done",
                                     !.result = Len(resolution.tried) + 1,
                                     !.element = outcome]
             ELSE [resolution EXCEPT !.tried = Append(@, outcome),
                                     !.counts = Append(@, count)]
  /\ UNCHANGED besidesResolution

ReturnNoneOnFirstMiss ==
  /\ resolution.fn = "any"
  /\ resolution.pc = "scan"
  /\ resolution.tried # <<>> \/ resolution.m = 0
  /\ resolution' = [resolution EXCEPT !.pc = "done"]
  /\ UNCHANGED besidesResolution

\* The list is exhausted: return None.
ReturnNone ==
  /\ resolution.fn = "any"
  /\ resolution.pc = "scan"
  /\ Len(resolution.tried) = resolution.m
  /\ resolution' = [resolution EXCEPT !.pc = "done"]
  /\ UNCHANGED besidesResolution

\* WebDriverWait(...).until(presence_of_element_located(...)) returns the
\* first element of the document that the selector matches, displayed or
\* not; with no such element until the timeout, TimeoutException is caught
\* and None returned.
WaitForElement ==
  /\ resolution.fn = "wait"
  /\ resolution.pc = "scan"
  /\ \E doc \in Documents(resolution.m) :
       resolution' =
         IF doc = <<>>
           THEN [resolution EXCEPT !.pc = "done"]
           ELSE [resolution EXCEPT !.pc = "done",
                                   !.doc = doc,
                                   !.result = doc[1].alt,
                                   !.element = doc[1].state]
  /\ UNCHANGED besidesResolution

\* The lookup raises something other than NoSuchElementException (an invalid
\* selector, a lost session): `except TimeoutException` does not catch it.
WaitRaises ==
  /\ resolution.fn = "wait"
  /\ resolution.pc = "scan"
  /\ resolution' = [resolution EXCEPT !.pc = "raised"]
  /\ UNCHANGED besidesResolution

NextResolve ==
  \/ TrySelector
  \/ ReturnNone
  \/ WaitForElement
  \/ WaitRaises

SpecResolve == InitResolve /\ [][NextResolve]_vars

\* A generator is called on an element.
InitGenerate ==
  /\ AtRest
  /\ tagCheck = NoTagCheck
  /\ construction = NoConstruction
  /\ tagsRun = NoTagsRun
  /\ imagesRun = NoImagesRun
  /\ resolution = NoResolution
  /\ discovery = NoDiscovery
  /\ rec = NoRecorder
  /\ \E fn \in {"css", "click"}, e \in Snapshots :
       generation = [NoGeneration EXCEPT !.fn = fn, !.pc = "called",
                                         !.snapshot = e]

GenerateCss ==
  /\ generation.fn = "css"
  /\ generation.pc = "called"
  /\ generation' =
       [generation EXCEPT !.pc = "done",
                          !.out = generate_css_selectors(generation.snapshot)]
  /\ UNCHANGED besidesGeneration

RecordSelectors ==
  /\ generation.fn = "click"
  /\ generation.pc = "called"
  /\ generation' =
       [generation EXCEPT !.pc = "done",
                          !.out = all_selectors(generation.snapshot)]
  /\ UNCHANGED besidesGeneration

NextGenerate ==
  \/ GenerateCss
  \/ RecordSelectors

SpecGenerate == InitGenerate /\ [][NextGenerate]_vars

\* run_auto_mode reaches a name, or the operator binds the last click.
InitDiscover ==
  /\ AtRest
  /\ tagCheck = NoTagCheck
  /\ construction = NoConstruction
  /\ tagsRun = NoTagsRun
  /\ imagesRun = NoImagesRun
  /\ resolution = NoResolution
  /\ generation = NoGeneration
  /\ rec = NoRecorder
  /\ \/ \E doc \in SelectorDocs :
          discovery = [NoDiscovery EXCEPT !.pc = "look", !.doc = doc]
     \/ \E sh \in Shadows :
          discovery = [NoDiscovery EXCEPT !.mode = "click", !.pc = "look",
                                          !.shadow = sh]

\* No selector of the name gives a displayed element: results["not_found"].
AutoNotFound ==
  /\ discovery.mode = "auto"
  /\ discovery.pc = "look"
  /\ FoundAt(discovery.doc) = 0
  /\ discovery' = [discovery EXCEPT !.pc = "not_found"]
  /\ UNCHANGED besidesDiscovery

\* The element is found; its selectors are generated, the primary is chosen
\* and the recipe is stored in self.selectors.
AutoRecord ==
  /\ discovery.mode = "auto"
  /\ discovery.pc = "look"
  /\ FoundAt(discovery.doc) # 0
  /\ \E e \in Snapshots :
       LET gen == generate_css_selectors(e) IN
       discovery' =
         IF gen.raised THEN [discovery EXCEPT !.pc = "raised"]
         ELSE [discovery EXCEPT
                 !.pc = "stored",
                 !.original = FoundAt(discovery.doc),
                 !.primary = AutoPrimary(discovery.doc, gen.selectors)]
  /\ UNCHANGED besidesDiscovery

\* record_current_element stores the recipe of the element clicked last.
ClickRecord ==
  /\ discovery.mode = "click"
  /\ discovery.pc = "look"
  /\ \E e \in Snapshots :
       discovery' = [discovery EXCEPT !.pc = "stored",
                                      !.primary = ClickPrimary(e)]
  /\ UNCHANGED besidesDiscovery

\* The primary of the stored recipe is resolved in the same document.
ResolvePrimary ==
  /\ discovery.pc = "stored"
  /\ discovery' = [discovery EXCEPT !.pc = "resolved",
                                    !.back = ResolveAgain(discovery)]
  /\ UNCHANGED besidesDiscovery

NextDiscover ==
  \/ AutoNotFound
  \/ AutoRecord
  \/ ClickRecord
  \/ ResolvePrimary

SpecDiscover == InitDiscover /\ [][NextDiscover]_vars

\* SelectorRecorder.run(mode) after start().
InitRecorder ==
  /\ AtRest
  /\ tagCheck = NoTagCheck
  /\ construction = NoConstruction
  /\ tagsRun = NoTagsRun
  /\ imagesRun = NoImagesRun
  /\ resolution = NoResolution
  /\ generation = NoGeneration
  /\ discovery = NoDiscovery
  /\ \E m \in {"auto", "interactive", "both"} :
       rec = [NoRecorder EXCEPT !.pc = "start", !.mode = m]

\* What the page of a run holds: the elements the operator clicks, and the
\* pages on which run_auto_mode locates an element.
ClickSnapshots ==
  {e \in Snapshots : /\ ~e.testid /\ ~e.datainput /\ ~e.type /\ ~e.isInput
                     /\ e.class = "none"}
AutoDocs == {<<"visible">>, <<"hidden", "visible">>}

\* run_auto_mode on a page where at most one name, one of `findable`, is
\* located; then the loop is entered (mode both) or the run stops.
AutoModeOf(findable) ==
  /\ rec.pc = "start"
  /\ rec.mode \in {"auto", "both"}
  /\ \/ rec' = [rec EXCEPT !.pc = IF rec.mode = "both" THEN "prompt"
                                  ELSE "stopped"]
     \/ \E name \in findable, doc \in AutoDocs, e \in Snapshots,
           same \in BOOLEAN :
          rec' =
            IF generate_css_selectors(e).raised
              THEN [rec EXCEPT !.pc = "raised"]
              ELSE [rec EXCEPT
                      !.pc = IF rec.mode = "both" THEN "prompt" ELSE "stopped",
                      !.selectors = Put(@, AutoEntry(name, doc, e, same))]
  /\ UNCHANGED besidesRec

\* run_interactive_mode is entered without run_auto_mode before it.
BeginInteractive ==
  /\ rec.pc = "start"
  /\ rec.mode = "interactive"
  /\ rec' = [rec EXCEPT !.pc = "prompt"]
  /\ UNCHANGED besidesRec

\* A loop that would write the file when it ends.
QuitSaving ==
  /\ rec.pc = "prompt"
  /\ \E key \in {"q", "ctrl-c", "eof"} :
       rec' = [rec EXCEPT !.pc = "stopped", !.lastKey = key,
                          !.file = [written |-> TRUE,
                                    content |-> rec.selectors]]
  /\ UNCHANGED besidesRec

\* 'q', or KeyboardInterrupt or EOFError at input(): the loop ends.
Quit ==
  /\ rec.pc = "prompt"
  /\ \E key \in {"q", "ctrl-c", "eof"} :
       rec' = [rec EXCEPT !.pc = "stopped", !.lastKey = key]
  /\ UNCHANGED besidesRec

\* 's': save_selectors() writes every entry of self.selectors; the loop
\* ends.
Save ==
  /\ rec.pc = "prompt"
  /\ rec' = [rec EXCEPT !.pc = "stopped", !.lastKey = "s",
                        !.file = [written |-> TRUE,
                                  content |-> rec.selectors]]
  /\ UNCHANGED besidesRec

\* 'h', 'l' and an unknown command print and change nothing.
Show ==
  /\ rec.pc = "prompt"
  /\ \E key \in {"h", "l", "?"} : rec' = [rec EXCEPT !.lastKey = key]
  /\ UNCHANGED besidesRec

\* 'd': the last key of the dict is deleted.
Delete ==
  /\ rec.pc = "prompt"
  /\ rec' = [rec EXCEPT
               !.lastKey = "d",
               !.lastBound = "none",
               !.selectors = IF @ = <<>> THEN @
                             ELSE SubSeq(@, 1, Len(@) - 1)]
  /\ UNCHANGED besidesRec

\* The operator clicks an element of the page: the listener of
\* setup_click_listener sets window.__lastClickedElement, which is null until
\* the first click.
Click ==
  /\ rec.pc = "prompt"
  /\ ~rec.clicked
  /\ rec' = [rec EXCEPT !.clicked = TRUE]
  /\ UNCHANGED besidesRec

\* A record_current_element that would not ask whether anything was clicked.
RecordWithoutClick(name, key, max) ==
  /\ rec.pc = "prompt"
  /\ rec.binds < max
  /\ \/ rec' = [rec EXCEPT !.lastKey = key]
     \/ \E e \in ClickSnapshots :
          rec' = [rec EXCEPT
                    !.lastKey = key,
                    !.lastBound = name,
                    !.binds = @ + 1,
                    !.selectors = Put(@, ClickEntry(name, e, rec.binds + 1))]
  /\ UNCHANGED besidesRec

\* record_current_element(name), reached by the command `key`: nothing is
\* stored when no element was clicked yet (`if not element_data: return`) or
\* execute_script raises; else the recipe of the element clicked last is
\* stored under the name.
Record(name, key, max) ==
  /\ rec.pc = "prompt"
  /\ rec.binds < max
  /\ \/ rec' = [rec EXCEPT !.lastKey = key]
     \/ \E e \in ClickSnapshots :
          /\ rec.clicked
          /\ rec' = [rec EXCEPT
                       !.lastKey = key,
                       !.lastBound = name,
                       !.binds = @ + 1,
                       !.selectors =
                         Put(@, ClickEntry(name, e, rec.binds + 1))]
  /\ UNCHANGED besidesRec

\* A digit: element_types[idx].
BindDigitOf(digits, max) ==
  \E key \in digits : Record(TypeOfDigit(key), key, max)

\* A single letter that is no command: the letter is the name.
BindLetterOf(max) == Record("a", "a", max)

\* Enter: the first type of the list that has no entry yet.
BindNextFreeOf(max) ==
  /\ \E i \in 1..Len(ElementTypes) : ElementTypes[i] \notin NamesIn(rec.selectors)
  /\ LET i == CHOOSE i \in 1..Len(ElementTypes) :
                /\ ElementTypes[i] \notin NamesIn(rec.selectors)
                /\ \A j \in 1..(i - 1) : ElementTypes[j] \in NamesIn(rec.selectors)
     IN  Record(ElementTypes[i], "", max)

\* KeyboardInterrupt while a command runs: it leaves run() and is caught in
\* main.
RecorderInterrupted ==
  /\ rec.pc = "prompt"
  /\ rec' = [rec EXCEPT !.pc = "raised"]
  /\ UNCHANGED besidesRec

\* A run with every digit command, and at most MaxBindsAllKeys bindings.
NextKeys ==
  \/ AutoModeOf(NamesIn([i \in 1..Len(ElementTypes) |-> [name |-> ElementTypes[i]]]))
  \/ BeginInteractive
  \/ Quit
  \/ Save
  \/ Show
  \/ Delete
  \/ Click
  \/ BindDigitOf(Digits, MaxBindsAllKeys)
  \/ BindLetterOf(MaxBindsAllKeys)
  \/ BindNextFreeOf(MaxBindsAllKeys)
  \/ RecorderInterrupted

SpecKeys == InitRecorder /\ [][NextKeys]_vars

\* A run with two of the digit commands, and at most MaxBinds bindings.
NextEdit ==
  \/ AutoModeOf({"login_email"})
  \/ BeginInteractive
  \/ Quit
  \/ Save
  \/ Show
  \/ Delete
  \/ Click
  \/ BindDigitOf({"1", "2"}, MaxBinds)
  \/ BindLetterOf(MaxBinds)
  \/ BindNextFreeOf(MaxBinds)
  \/ RecorderInterrupted

SpecEdit == InitRecorder /\ [][NextEdit]_vars

\* ------------------------------------ the tag limit, builder and uploader
\* The tag strings of up to MaxTagParts parts.
TagStrings == UNION {[1..m -> BOOLEAN] : m \in 1..MaxTagParts}

\* The positions of the parts, in order.
Positions(parts) == [k \in 1..Len(parts) |-> k]

\* [t for t in ... if t.strip()]: the positions of `kept` that hold a tag.
NonBlank(parts, kept) == SelectSeq(kept, LAMBDA k : parts[k])

\* tag_count of validate_products: len([t for t in tags.split(',')
\* if t.strip()]).
tag_count(parts) == Len(NonBlank(parts, Positions(parts)))

\* parse_tags of the builder: [t.strip() for t in tags.split(',')][:13],
\* joined again; the blank parts stay in the list and take up places.  (For
\* the empty string '' is returned, which is the join of the one blank
\* part.)
parse_tags_parts(parts) == FirstN(Positions(parts), TagLimit)

\* tag_list of _add_tags for a str: the same list, the same slice; a str
\* never gives an empty list, so the default tags do not come in.
add_tags_parts(parts) == FirstN(Positions(parts), TagLimit)

InitLimit ==
  /\ AtRest
  /\ CallsAtRest
  /\ construction = NoConstruction
  /\ \E parts \in TagStrings :
       tagCheck = [NoTagCheck EXCEPT !.pc = "drawn", !.parts = parts]

\* validate_products looks at the tags of the row.
ValidateTags ==
  /\ tagCheck.pc = "drawn"
  /\ tagCheck' = [tagCheck EXCEPT
                    !.pc = "validated",
                    !.warned = tag_count(tagCheck.parts) > TagLimit]
  /\ UNCHANGED besidesTagCheck

\* transform_product calls parse_tags on the tags of the row.
BuildTags ==
  /\ tagCheck.pc = "validated"
  /\ tagCheck' = [tagCheck EXCEPT
                    !.pc = "built",
                    !.built = parse_tags_parts(tagCheck.parts)]
  /\ UNCHANGED besidesTagCheck

\* _add_tags parses the same string.
ParseTagsToEnter ==
  /\ tagCheck.pc = "built"
  /\ tagCheck' = [tagCheck EXCEPT
                    !.pc = "entered",
                    !.entered = add_tags_parts(tagCheck.parts)]
  /\ UNCHANGED besidesTagCheck

NextLimit ==
  \/ ValidateTags
  \/ BuildTags
  \/ ParseTagsToEnter

SpecLimit == InitLimit /\ [][NextLimit]_vars

\* ------------------------------------- EtsyUploader() and UploaderLogger()
\* The statements of EtsyUploader.__init__ in source order, those of
\* UploaderLogger.__init__, _setup_directories and _setup_logger standing
\* where `self.logger = UploaderLogger()` calls them.
ConstructorStatements ==
  <<"uploader.config", "uploader.headless", "uploader.driver",
    "uploader.browser_utils",
    "logger.log_dir", "logger.mkdir", "logger.logger",
    "logger.clear_handlers", "logger.console_handler",
    "logger.file_handler", "logger.session_id", "logger.error_log_path",
    "logger.upload_log_path",
    "uploader.logger", "uploader.stats">>

\* The statements of a construction of `entry`: all of them for
\* EtsyUploader, those of the logger for UploaderLogger.
FirstStatement(entry) ==
  IF entry = "EtsyUploader" THEN 1
  ELSE CHOOSE k \in 1..Len(ConstructorStatements) :
         ConstructorStatements[k] = "logger.log_dir"
LastStatement(entry) ==
  IF entry = "EtsyUploader" THEN Len(ConstructorStatements)
  ELSE CHOOSE k \in 1..Len(ConstructorStatements) :
         ConstructorStatements[k] = "logger.upload_log_path"

\* The attributes of self a statement reads: _setup_directories reads
\* self.log_dir; _setup_logger works on self.logger and names the log file
\* f"uploader_{self.session_id}.log" in self.log_dir; the two paths are
\* built from self.session_id.
Reads(st) ==
  CASE st = "logger.mkdir" -> {"logger.log_dir"}
    [] st \in {"logger.clear_handlers", "logger.console_handler"} ->
         {"logger.logger"}
    [] st = "logger.file_handler" ->
         {"logger.logger", "logger.log_dir", "logger.session_id"}
    [] st \in {"logger.error_log_path", "logger.upload_log_path"} ->
         {"logger.session_id"}
    [] OTHER -> {}

\* The attribute a statement assigns, if it assigns one.
Assigns(st) ==
  IF st \in {"logger.mkdir", "logger.clear_handlers",
             "logger.console_handler", "logger.file_handler"}
    THEN {}
    ELSE {st}

InitConstruct ==
  /\ AtRest
  /\ CallsAtRest
  /\ tagCheck = NoTagCheck
  /\ \E d \in BOOLEAN :
       construction = [NoConstruction EXCEPT !.dirExists = d]

\* EtsyUploader(config_path, headless) or UploaderLogger() is called: a new
\* object without attributes.
Construct ==
  /\ construction.pc \in {"idle", "raised", "constructed"}
  /\ construction.built < MaxConstructions
  /\ \E entry \in {"EtsyUploader", "UploaderLogger"},
        found \in BOOLEAN, headless \in BOOLEAN :
       /\ entry = "UploaderLogger" => ~found /\ ~headless
       /\ construction' =
            [construction EXCEPT
               !.pc = "running", !.entry = entry,
               !.i = FirstStatement(entry), !.attrs = {},
               !.configFound = found, !.headless = headless,
               !.built = @ + 1, !.error = "none"]
  /\ UNCHANGED besidesConstruction

\* The statement at i runs: every attribute it reads is there.  mkdir
\* (parents, exist_ok) leaves the directory there; `handlers = []` and the
\* two addHandler calls work on the logger of the process.
RunStatement ==
  LET st == ConstructorStatements[construction.i] IN
  /\ construction.pc = "running"
  /\ Reads(st) \subseteq construction.attrs
  /\ construction' =
       [construction EXCEPT
          !.pc = IF construction.i = LastStatement(construction.entry)
                   THEN "constructed" ELSE "running",
          !.i = @ + 1,
          !.attrs = @ \cup Assigns(st),
          !.dirExists = IF st = "logger.mkdir" THEN TRUE ELSE @,
          !.handlers =
            IF st = "logger.clear_handlers" THEN 0
            ELSE IF st \in {"logger.console_handler", "logger.file_handler"}
              THEN @ + 1
            ELSE @]
  /\ UNCHANGED besidesConstruction

\* The statement at i reads an attribute that was not assigned:
\* AttributeError leaves the constructor.
StatementRaises ==
  LET st == ConstructorStatements[construction.i] IN
  /\ construction.pc = "running"
  /\ ~(Reads(st) \subseteq construction.attrs)
  /\ construction' = [construction EXCEPT !.pc = "raised",
                                          !.error = "AttributeError"]
  /\ UNCHANGED besidesConstruction

NextConstruct ==
  \/ Construct
  \/ RunStatement
  \/ StatementRaises

SpecConstruct == InitConstruct /\ [][NextConstruct]_vars

\* ------------------------------------------------------------------ claims
IsPrefix(a, b) == Len(a) <= Len(b) /\ a = SubSeq(b, 1, Len(a))

\* A step of the workflow is enabled.
WorkflowStep ==
  \/ TitleError \/ NavigateOk \/ NavigateFail \/ FillStep
  \/ (\E page \in Pages : PublishOk(page))
  \/ (\E page \in Pages : PublishFail(page))
  \/ Retry

\* C1, as stated: the attempts made for a listing (calls of Navigate) never
\* exceed settings.max_retries.  Stated for a budget of at least one retry.
C1_AttemptsWithinMaxRetries ==
  max_retries >= 1 => wf.navCount <= max_retries

\* C1, amended: the attempts made for a listing never exceed
\* settings.max_retries + 1 (the first attempt and max_retries retries).
C1_AttemptsWithinRetriesPlusOne ==
  /\ wf.navCount <= max_retries + 1
  /\ wf.attempts <= max_retries + 1

C1_Witness ==
  /\ max_retries >= 1
  /\ wf.navCount = max_retries + 1

\* C2: a failed attempt with retry budget left is followed by exactly one new
\* attempt, which starts at Navigate with an empty step log and, once
\* Navigate has succeeded, a blank form; the attempts of an item are its
\* failed attempts plus the one in progress, so no failure retries twice.
C2_OneRetryPerFailedAttempt ==
  /\ [](pc = "item" =>
          /\ wf.attempts = wf.retry_count + 1
          /\ wf.attempts = wf.fails + (IF wf.pc = "retry_delay" THEN 0 ELSE 1)
          /\ (wf.stepLog # <<>> => wf.stepLog[1] = "navigate")
          /\ (wf.pc = "title" => ~formFilled))
  /\ [][(pc = "item" /\ returned' = returned /\ wf'.fails = wf.fails + 1
           /\ wf.retry_count < max_retries)
          => wf'.pc = "retry_delay"]_vars
  /\ [][(pc = "item" /\ wf.pc = "retry_delay" /\ wf' # wf)
          => /\ wf'.pc = "navigate"
             /\ wf'.stepLog = <<>>
             /\ wf'.attempts = wf.attempts + 1
             /\ wf'.fails = wf.fails]_vars

C2_Witness ==
  /\ pc = "item"
  /\ wf.retry_count = 1
  /\ wf.fails = 1
  /\ wf.pc = "title"
  /\ wf.stepLog = <<"navigate">>

\* C3: success + failed is the number of workflow invocations that have
\* returned; a return adds one to exactly one of the two counters, and no
\* other step (a retry among them) changes either.
C3_CountedExactlyOnce ==
  /\ [](stats.success + stats.failed = returned)
  /\ [][returned' = returned + 1 =>
          \/ stats'.success = stats.success + 1 /\ stats'.failed = stats.failed
          \/ stats'.failed = stats.failed + 1 /\ stats'.success = stats.success]_vars
  /\ [][returned' = returned =>
          stats'.success = stats.success /\ stats'.failed = stats.failed]_vars
  /\ [](wf.pc = "returned" /\ lastResult = "true" => stats.success >= 1)
  /\ [](wf.pc = "returned" /\ lastResult = "false" => stats.failed >= 1)

C3_Witness ==
  /\ mode = "bulk"
  /\ wf.pc = "returned"
  /\ wf.retry_count >= 1
  /\ lastResult = "true"
  /\ stats.success = 1
  /\ stats.failed = 1

\* C4, as stated: the steps of an attempt run in the order Navigate,
\* FillTitle, FillDescription, FillPrice, FillQuantity, SelectCategory,
\* AttachImages, SetDigitalFlag, AddTags, Submit.
C4_StepsInSpecOrder == IsPrefix(wf.stepLog, SpecStepOrder)

\* C4, amended: the steps of an attempt run in the order Navigate, FillTitle,
\* FillDescription, FillPrice, FillQuantity, SelectCategory, AddTags,
\* AttachImages, SetDigitalFlag, Submit, none starting before all that
\* precede it have run.
C4_StepsInSourceOrder ==
  IsPrefix(wf.stepLog,
           <<"navigate", "title", "description", "price", "quantity",
             "category", "tags", "images", "digital", "publish">>)

C4_Witness ==
  /\ Len(wf.stepLog) = Len(SpecStepOrder)
  /\ wf.pc = "returned"

\* The step from s to t runs a fill step whose action raised.
FillStepErrored(s, t) ==
  /\ s.pc \in FillSteps
  /\ t.stepLog = Append(s.stepLog, s.pc)
  /\ t.lastOutcome = "error"

\* C5, as stated: when the action of a fill step errors and retry budget is
\* left, the attempt is abandoned for a retry from Navigate.
C5_ErrorAbandonsAttempt ==
  [][(pc = "item" /\ FillStepErrored(wf, wf') /\ wf.retry_count < max_retries)
       => wf'.pc = "retry_delay"]_vars

\* C5, amended: when the action of a fill step errors, the step catches the
\* error and the same attempt goes on with the next step; the error counts as
\* no failed attempt and triggers no retry.
C5_ErrorIsSwallowed ==
  [][(pc = "item" /\ FillStepErrored(wf, wf'))
       => /\ pc' = "item"
          /\ wf'.pc = NextStep(wf.pc)
          /\ wf'.retry_count = wf.retry_count
          /\ wf'.attempts = wf.attempts
          /\ wf'.fails = wf.fails]_vars

C5_Witness ==
  /\ pc = "item"
  /\ wf.retry_count < max_retries
  /\ wf.lastOutcome = "error"
  /\ wf.pc = "description"
  /\ wf.stepLog = <<"navigate", "title">>

\* How far upload_single_product is from returning.
Rank(w) ==
  (max_retries + 1 - w.attempts) * (Len(SpecStepOrder) + 2)
    + (IF w.pc = "retry_delay" THEN 0
       ELSE Len(SpecStepOrder) + 1 - IndexOf(w.pc))

\* C6: upload_single_product terminates (every step of it brings it nearer
\* to its return, and one is always possible), no step error leaves it as an
\* exception (a call that raised while the workflow ran was interrupted by
\* the operator), and it returns False exactly when every attempt of the
\* budget has failed.
C6_ReturnsBoolean ==
  /\ [](pc = "item" => Rank(wf) >= 0 /\ ENABLED WorkflowStep)
  /\ [][(pc = "item" /\ pc' = "item" /\ returned' = returned /\ wf' # wf)
          => Rank(wf') < Rank(wf)]_vars
  /\ [](pc = "raised" /\ wf.pc # "none" => raisedBy = "interrupt")
  /\ [](wf.pc = "returned" =>
          /\ lastResult \in {"true", "false"}
          /\ (lastResult = "false") = (wf.fails = wf.attempts)
          /\ (lastResult = "false") => (wf.attempts = max_retries + 1))

C6_Witness ==
  /\ wf.pc = "returned"
  /\ lastResult = "false"
  /\ max_retries >= 1
  /\ wf.fails = max_retries + 1
  /\ raisedBy = "none"

\* The rows upload_bulk is to process: from the start offset to the end of
\* the input (a negative offset counting from the end, as slices do).
RowsFromOffset ==
  LET lo == IF start_index >= 0 THEN start_index
            ELSE Max(n_products + start_index, 0)
  IN  [k \in 1..Max(n_products - lo, 0) |-> lo + k - 1]

\* C7: upload_bulk invokes the workflow on the rows from the start offset
\* on, in input order, each once, whatever the items come to: what has been
\* invoked is always a prefix of those rows, an item that failed is followed
\* by the next row, and on completion every row has been invoked.
C7_FailedItemNeverAborts ==
  /\ [](mode = "bulk" => IsPrefix(invoked, RowsFromOffset))
  /\ [](mode = "bulk" /\ pc = "done" /\ loggedIn = "ok"
          => invoked = RowsFromOffset)
  /\ [][(mode = "bulk" /\ pc = "item" /\ returned' = returned + 1
           /\ Len(invoked) < Len(RowsFromOffset))
          => pc' \in {"delay", "item"}]_vars
  /\ [][(pc = "delay" /\ pc' \notin {"delay", "raised"}
           /\ Len(invoked) < Len(RowsFromOffset))
          => invoked' = Append(invoked, RowsFromOffset[Len(invoked) + 1])]_vars

C7_Witness ==
  /\ mode = "bulk"
  /\ pc = "done"
  /\ loggedIn = "ok"
  /\ Len(invoked) >= 2
  /\ stats.failed >= 1
  /\ lastResult = "true"
  /\ runs = 1

\* C8: when a call has ended, by returning (normal completion, login
\* failure) or by an exception (operator interruption during an item or a
\* delay, an error escaping the caller), no session is left open.
C8_SessionReleasedOnEveryExit ==
  (\/ pc = "done"
   \/ pc = "raised" /\ raisedBy = "interrupt" /\ invoked # <<>>
   \/ pc = "raised" /\ raisedBy = "index")
    => openSessions = 0

\* C9: after a failed login the workflow is invoked on no row: it is invoked
\* only in a call whose login succeeded.
C9_NoWorkflowAfterLoginFailure ==
  /\ loggedIn = "failed" => invoked = <<>> /\ wf = NoWf /\ pc = "done"
  /\ invoked # <<>> => loggedIn = "ok"
  /\ pc \in {"item", "delay"} => loggedIn = "ok"

C9_Witness ==
  /\ mode = "bulk"
  /\ loggedIn = "failed"
  /\ n_products >= 2
  /\ start_index = 0
  /\ pc = "done"

\* C10, as stated: after a failed login of a batch of n rows, total = n,
\* success = 0 and failed = n.
C10_AllMarkedFailed ==
  (mode = "bulk" /\ loggedIn = "failed")
    => stats.total = n_products /\ stats.success = 0
       /\ stats.failed = n_products

\* C10, amended: after a failed login of a batch of n rows, total = n and
\* success and failed are what they were before the call, 0 and 0 on a fresh
\* uploader: no row is marked failed.
C10_NoneMarkedFailed ==
  /\ [](mode = "bulk" /\ loggedIn = "failed" => stats.total = n_products)
  /\ [](mode = "bulk" /\ loggedIn = "failed" /\ runs = 1
          => stats.success = 0 /\ stats.failed = 0)
  /\ [][(mode' = "bulk" /\ loggedIn' = "failed" /\ runs' = runs)
          => stats'.success = stats.success /\ stats'.failed = stats.failed]_vars
  /\ [][(pc' \in {"setup", "login"})
          => stats'.success = stats.success /\ stats'.failed = stats.failed]_vars

C10_Witness ==
  /\ mode = "bulk"
  /\ loggedIn = "failed"
  /\ runs = 1
  /\ n_products >= 2
  /\ stats = [total |-> n_products, success |-> 0, failed |-> 0]

\* C11, as stated: the final summary is reported on every way a batch run over
\* a non-empty input returns, the return after a failed login among them.
C11_SummaryOnEveryEnd ==
  (mode = "bulk" /\ pc = "done" /\ n_products > 0) => summaryPrinted

\* C11, amended: the final summary is reported exactly when the call returns
\* after its item loop has run to its end, which takes a successful login:
\* whatever the items came to, and on no other way out (a failed login, an
\* empty input, an exception leaving the call).
C11_SummaryOnlyAfterLoop ==
  /\ pc = "done" => (summaryPrinted <=> loggedIn = "ok")
  /\ pc # "done" => ~summaryPrinted
  /\ (summaryPrinted /\ mode = "bulk")
       => Len(invoked) = SliceLen(n_products, start_index)
  /\ (summaryPrinted /\ mode = "single") => Len(invoked) = 1

C11_Witness ==
  /\ mode = "bulk"
  /\ summaryPrinted
  /\ runs = 1
  /\ stats = [total |-> 2, success |-> 1, failed |-> 1]

\* The labels enumerate(products[start_index:], start=start_index) gives the
\* items whose call of the workflow has returned in this call.
LabelsDone ==
  [k \in 1..(Len(invoked) - (IF wf.pc \in {"none", "returned"} THEN 0 ELSE 1))
     |-> start_index + k - 1]

\* C12, as stated: in a batch of 12 records, by the time the 11th item starts
\* the run has paused once after each of the 10 items before it and once
\* more, the extra rate-limit pause after the 10th.
C12_ExtraPauseBeforeEleventh ==
  (n_products = 12 /\ start_index = 0 /\ Len(invoked) = 11)
    => Len(sleeps) = 10 + 1

\* C12, amended: no extra pause is inserted at any point of a batch run.  The
\* run pauses once (time.sleep of settings.delay_between_products) after the
\* item labelled i exactly if i < len(products) - 1, and nowhere else: for an
\* offset >= 0 once between consecutive items and not after the last.
C12_OnlyInterItemPauses ==
  /\ sleeps = SelectSeq(LabelsDone, LAMBDA i : i < n_products - 1)
  /\ (start_index >= 0 /\ pc = "done" /\ invoked # <<>>)
       => Len(sleeps) = Len(invoked) - 1

C12_Witness ==
  /\ n_products = 12
  /\ start_index = 0
  /\ pc = "done"
  /\ Len(sleeps) = 11
  /\ stats = [total |-> 12, success |-> 12, failed |-> 0]

\* C13, as stated, for the first run of an uploader: when a batch run
\* completes, success + failed = total, whatever the start offset.
C13_CountsSumToTotal ==
  (mode = "bulk" /\ pc = "done" /\ loggedIn = "ok" /\ runs = 1)
    => stats.success + stats.failed = stats.total

\* C13, amended: when a batch run completes, total is the length of the input
\* and the success and failed counts the run has added sum to the number of
\* rows from the start offset on: the counts grow by one with each item done
\* in the call and by nothing else, a call starts with no item done, and at
\* completion the items done are the rows of products[start_index:].
C13_CountsSumToRowsFromOffset ==
  /\ [](mode = "bulk" /\ pc = "done" /\ loggedIn = "ok"
          => /\ stats.total = n_products
             /\ Len(LabelsDone) = SliceLen(n_products, start_index))
  /\ [](mode = "bulk" /\ runs = 1
          => stats.success + stats.failed = Len(LabelsDone))
  /\ [][runs' = runs
          => (stats'.success + stats'.failed) - (stats.success + stats.failed)
               = Len(LabelsDone') - Len(LabelsDone)]_vars
  /\ [][runs' # runs
          => /\ stats'.success = stats.success
             /\ stats'.failed = stats.failed
             /\ Len(LabelsDone') = 0]_vars

C13_Witness ==
  /\ mode = "bulk"
  /\ pc = "done"
  /\ loggedIn = "ok"
  /\ runs = 1
  /\ n_products = 2
  /\ start_index = 1
  /\ stats = [total |-> 2, success |-> 1, failed |-> 0]

\* C14: at the start of every call of upload_bulk or upload_single (the input
\* loaded, total set, the driver about to be set up) the success and failed
\* counts are zero, so the counts reported describe that run alone.
C14_CountsZeroAtCallStart ==
  pc = "setup" => stats.success = 0 /\ stats.failed = 0

\* The positions of wf.calls that hold one of `names`.
CallsOf(names) == {k \in 1..Len(wf.calls) : wf.calls[k] \in names}

\* C15: once Submit has run in an attempt, its first driver call was the
\* lookup of the publish buttons; the save-draft buttons were looked up or
\* clicked only after that lookup found no enabled publish button; an enabled
\* publish button was clicked; at most one click was made; Submit returned
\* True exactly if a click went through; and with neither an enabled publish
\* nor an enabled save-draft button Submit clicked nothing and failed the
\* attempt, which is retried from Navigate while retry budget is left and
\* otherwise ends the item as failed.
C15_PublishThenDraftOnce ==
  Len(wf.stepLog) = Len(StepOrder) =>
    /\ wf.calls # <<>>
    /\ wf.calls[1] = "find_publish"
    /\ CallsOf({"find_draft", "click_draft"}) # {}
         => submitPage.publish = "none"
    /\ submitPage.publish = "enabled" => CallsOf({"click_publish"}) # {}
    /\ Cardinality(CallsOf({"click_publish", "click_draft"})) <= 1
    /\ PublishReturns(wf.lastOutcome)
         <=> /\ CallsOf({"click_publish", "click_draft"}) # {}
             /\ submitPage.click = "clicked"
    /\ PublishReturns(wf.lastOutcome)
         => wf.pc = "returned" /\ lastResult = "true"
    /\ (submitPage.publish # "enabled" /\ submitPage.draft # "enabled")
         => /\ CallsOf({"click_publish", "click_draft"}) = {}
            /\ ~PublishReturns(wf.lastOutcome)
    /\ ~PublishReturns(wf.lastOutcome)
         => IF wf.retry_count < max_retries
              THEN wf.pc = "retry_delay" /\ pc = "item"
              ELSE wf.pc = "returned" /\ lastResult = "false"

C15_Witness ==
  /\ Len(wf.stepLog) = Len(StepOrder)
  /\ submitPage.publish = "none"
  /\ submitPage.draft = "none"
  /\ wf.calls = <<"find_publish", "find_draft">>
  /\ wf.pc = "retry_delay"
  /\ wf.retry_count = 0

\* Scenario A: Navigate loads the form, the title input resolves and is
\* typed into, the targets of the seven other fill steps do not resolve, and
\* the publish button is clicked.
ScenarioA ==
  <<"applied", "applied", "skipped", "skipped", "skipped", "skipped",
    "skipped", "skipped", "skipped", "published">>

\* C16: a fill step whose target does not resolve is skipped and the same
\* attempt goes on with the next step, no failure counted and no retry
\* started; an attempt whose Submit clicks a button succeeds whatever its
\* fill steps came to; so in scenario A (only the title fill and the publish
\* action applied, every other step skipped) the attempt triggers no retry
\* and the item is a success.
C16_UnresolvedTargetIsSkipped ==
  /\ [][(pc = "item" /\ wf.pc \in FillSteps
           /\ wf'.stepLog = Append(wf.stepLog, wf.pc)
           /\ wf'.lastOutcome = "skipped")
          => /\ pc' = "item"
             /\ wf'.pc = NextStep(wf.pc)
             /\ wf'.retry_count = wf.retry_count
             /\ wf'.attempts = wf.attempts
             /\ wf'.fails = wf.fails
             /\ stepOutcomes' = Append(stepOutcomes, "skipped")]_vars
  /\ [](Len(stepOutcomes) = Len(wf.stepLog))
  /\ [](/\ Len(stepOutcomes) = Len(StepOrder)
         /\ PublishReturns(stepOutcomes[Len(StepOrder)])
          => /\ wf.pc = "returned"
             /\ lastResult = "true"
             /\ wf.fails = wf.retry_count
             /\ stats.success = 1 /\ stats.failed = 0)
  /\ [](stepOutcomes = ScenarioA
          => /\ wf.stepLog = StepOrder
             /\ wf.pc = "returned"
             /\ lastResult = "true"
             /\ wf.fails = wf.retry_count)

C16_Witness ==
  /\ stepOutcomes = ScenarioA
  /\ wf.retry_count = 0
  /\ wf.fails = 0
  /\ lastResult = "true"
  /\ stats = [total |-> 1, success |-> 1, failed |-> 0]

\* C17: AddTags goes through exactly the first 13 tags of a longer list, and
\* through every tag of a list of 13 or fewer, in the order of the list and
\* with none left out; a tag that was typed is followed at once by the Enter
\* keypress for that same tag, before anything is typed for the next; when
\* the tag input resolves and no keypress raises, every one of these tags is
\* typed and committed.  The template builder's parse_tags keeps the same
\* first 13, in order.
TagsWanted(n) ==
  IF n > TagLimit THEN [k \in 1..TagLimit |-> k] ELSE [k \in 1..n |-> k]

TagsGoneThrough ==
  LET firsts == SelectSeq(tagsRun.events,
                          LAMBDA e : e[1] \in {"no_input", "type", "type_raised"})
  IN  [j \in 1..Len(firsts) |-> firsts[j][2]]

C18_AtMostTenMissingSkipped ==
  LET n == imagesRun.input.n
      ev == imagesRun.events
      limit == IF n > ImageLimit THEN ImageLimit ELSE n
      attached == SelectSeq(ev, LAMBDA e : e[1] = "attached")
  IN  imagesRun.pc # "idle" =>
        /\ Len(attached) <= ImageLimit
        /\ Len(ev) <= limit
        /\ \A j \in 1..Len(ev) : ev[j][2] = j
        /\ \A j \in 1..Len(ev) :
             ev[j][1] = "missing" =>
               \/ j < Len(ev)
               \/ j = limit /\ imagesRun.returns \in {"none", "true"}
               \/ j < limit /\ imagesRun.pc = "loop" /\ imagesRun.returns = "none"
        /\ imagesRun.returns = "true" /\ n > 0 => Len(ev) = limit
        /\ imagesRun.returns = "false" =>
             \/ ev = <<>>
             \/ ev[Len(ev)][1] = "attach_raised"
        /\ \A j \in 1..Len(ev) : ev[j][1] = "attach_raised" => j = Len(ev)
        /\ SelectSeq(image_columns(n), LAMBDA c : c # 0) = [k \in 1..limit |-> k]

\* Of 11 entries the first and the ninth name no file: the step has passed
\* them over, attached the others up to the tenth, and returned True.
C18_Witness ==
  /\ imagesRun.pc = "done"
  /\ imagesRun.returns = "true"
  /\ imagesRun.input.n = ImageLimit + 1
  /\ Len(imagesRun.events) = ImageLimit
  /\ imagesRun.events[1] = <<"missing", 1>>
  /\ imagesRun.events[2] = <<"attached", 2>>
  /\ imagesRun.events[ImageLimit - 1] = <<"missing", ImageLimit - 1>>
  /\ imagesRun.events[ImageLimit] = <<"attached", ImageLimit>>

\* C19 (as stated): rows missing a required field are excluded before the
\* batch starts, so the workflow is never invoked on a row without a title.
C19_InvalidRowsExcluded == pc = "item" => product.titleIsStr

\* C19 (amended): the uploader excludes nothing.  A row without a title is
\* handed to the workflow like any other; each attempt on it fails before
\* the listing page is opened, it uses up the whole retry budget, and it is
\* counted as failed.
C19_RowWithoutTitleUsesAllRetries ==
  /\ [](pc = "item" /\ ~product.titleIsStr
          => /\ invoked # <<>>
             /\ wf.navCount = 0
             /\ wf.stepLog = <<>>)
  /\ [](wf.pc = "returned" /\ ~product.titleIsStr
          => /\ lastResult = "false"
             /\ wf.attempts = max_retries + 1
             /\ wf.fails = max_retries + 1
             /\ wf.retry_count = max_retries
             /\ wf.navCount = 0
             /\ stats.failed >= 1)

\* A batch has handed a row without a title to the workflow, which tried it
\* once and again for every retry of a budget of at least one.
C19_Witness ==
  /\ mode = "bulk"
  /\ wf.pc = "returned"
  /\ ~product.titleIsStr
  /\ max_retries >= 1
  /\ wf.fails = max_retries + 1
  /\ lastResult = "false"

\* C20 (as stated): a lookup returns the element of the first candidate, in
\* listed order, that matches a visible element, and nothing if there is no
\* such candidate; a lookup error never ends it.
CandidatesSeen ==
  IF resolution.fn = "any"
    THEN {k \in 1..Len(resolution.tried) : resolution.tried[k] = "visible"}
    ELSE {k \in 1..resolution.m :
            \E j \in 1..Len(resolution.doc) :
              /\ resolution.doc[j].alt = k
              /\ resolution.doc[j].state = "visible"}

C20_FirstCandidateWithVisibleElement ==
  resolution.pc \in {"done", "raised"} =>
    /\ resolution.pc = "done"
    /\ IF CandidatesSeen = {}
         THEN resolution.result = 0
         ELSE /\ resolution.result \in CandidatesSeen
              /\ \A k \in CandidatesSeen : resolution.result <= k
              /\ resolution.element = "visible"

\* C20 (amended): find_element_by_any_selector tries its selectors in listed
\* order and returns the element of the first one for which the driver
\* yields a displayed element; a selector whose lookup raises, or whose
\* element is not displayed, is passed over and the scan goes on; None when
\* the list is exhausted.  wait_for_element, the lookup of the upload
\* workflow, returns the first element of the document that any alternative
\* of its selector matches, displayed or not, and None when there is none.
C20_ListedOrderOnlyInAnySelector ==
  LET r == resolution
      t == r.tried
  IN  /\ r.fn = "any" /\ r.pc # "idle" =>
           /\ r.pc \in {"scan", "done"}
           /\ Len(t) <= r.m
           /\ \A k \in 1..Len(t) :
                t[k] = "visible" <=> (r.pc = "done" /\ r.result = k)
           /\ r.result > 0 => r.result = Len(t) /\ r.element = "visible"
           /\ r.pc = "done" /\ r.result = 0 => Len(t) = r.m
           /\ r.pc = "scan" => r.result = 0
      /\ r.fn = "wait" /\ r.pc = "done" =>
           IF r.doc = <<>>
             THEN r.result = 0 /\ r.element = "none"
             ELSE r.result = r.doc[1].alt /\ r.element = r.doc[1].state

\* The scan has passed over a selector whose lookup raised and one whose
\* element is hidden, and has returned the element of the third.
C20_Witness ==
  /\ resolution.fn = "any"
  /\ resolution.pc = "done"
  /\ resolution.tried = <<"raises", "hidden", "visible">>
  /\ resolution.result = 3

\* C21 (as stated): when no candidate matches, the lookup returns a
\* ResolutionFailure that carries the attempted expressions in the order
\* tried.
C21_NoMatchReturnsResolutionFailure ==
  (resolution.fn = "any" /\ resolution.pc = "done" /\ resolution.result = 0)
    => LET v == ReturnValue(resolution)
       IN  /\ v.kind = "ResolutionFailure"
           /\ v.tried = [k \in 1..resolution.m |-> k]

\* C21 (amended): when no selector yields a displayed element,
\* find_element_by_any_selector returns None and nothing else, and does so
\* only after every selector of the list was tried; wait_for_element returns
\* None when the document has no matching element.
C21_NoMatchReturnsBareNone ==
  LET r == resolution
      v == ReturnValue(r)
  IN  /\ r.fn = "any" /\ r.pc = "done" =>
           /\ v.kind = "None" <=> \A k \in 1..Len(r.tried) : r.tried[k] # "visible"
           /\ v.kind = "None" => Len(r.tried) = r.m /\ DOMAIN v = {"kind"}
      /\ r.fn = "wait" /\ r.pc = "done" =>
           /\ v.kind = "None" <=> r.doc = <<>>
           /\ v.kind = "None" => DOMAIN v = {"kind"}

\* Three selectors were tried, none gave a displayed element, and None is
\* returned.
C21_Witness ==
  /\ resolution.fn = "any"
  /\ resolution.pc = "done"
  /\ resolution.tried = <<"raises", "hidden", "stale">>
  /\ ReturnValue(resolution) = [kind |-> "None"]

\* C22 (as stated): a candidate succeeds only if it matches exactly one
\* element; one that matches two or more is passed over.
C22_AmbiguousCandidateRejected ==
  /\ (resolution.fn = "any" /\ resolution.result > 0)
       => resolution.counts[resolution.result] = 1
  /\ (resolution.fn = "wait" /\ resolution.result > 0)
       => Len(resolution.doc) = 1

\* C22 (amended): the number of elements a candidate matches plays no part.
\* find_element_by_any_selector accepts a selector exactly when the first
\* element it matches is displayed, be it the only match or not;
\* wait_for_element returns the first matching element of the document,
\* however many there are and displayed or not.
C22_FirstMatchDecides ==
  LET r == resolution IN
  /\ r.fn = "any" =>
       /\ Len(r.counts) = Len(r.tried)
       /\ \A k \in 1..Len(r.tried) :
            /\ r.tried[k] = "raises" <=> r.counts[k] = 0
            /\ (r.tried[k] = "visible" /\ r.counts[k] >= 1)
                 <=> (r.pc = "done" /\ r.result = k)
  /\ r.fn = "wait" /\ r.pc = "done" =>
       /\ r.doc # <<>> <=> r.result > 0
       /\ r.result > 0 => r.element = r.doc[1].state /\ r.result = r.doc[1].alt

\* A selector that matches two elements, the first of them displayed, was
\* accepted after one whose first element is hidden.
C22_Witness ==
  /\ resolution.fn = "any"
  /\ resolution.pc = "done"
  /\ resolution.tried = <<"hidden", "visible">>
  /\ resolution.counts = <<2, 2>>
  /\ resolution.result = 2

\* C23 (as stated): the generators return the candidates of the attributes
\* present, in the order identifier, name, test-id, accessible-label,
\* placeholder, first class token, structural path.
CarriedBy(e, c) ==
  CASE c = "id" -> e.id
    [] c = "name" -> e.name
    [] c = "testid" -> e.testid
    [] c = "datainput" -> e.datainput
    [] c = "type" -> e.type /\ e.isInput
    [] c = "placeholder" -> e.placeholder
    [] c = "aria" -> e.aria
    [] c = "class" -> e.class = "some"
    [] c = "path" -> TRUE

InOrder(priority, e) == SelectSeq(priority, LAMBDA c : CarriedBy(e, c))

C23_SpecPriorityOrder ==
  generation.pc = "done" =>
    /\ ~generation.out.raised
    /\ generation.out.selectors =
         InOrder(<<"id", "name", "testid", "aria", "placeholder", "class",
                   "path">>, generation.snapshot)

\* C23 (amended): generate_css_selectors returns one selector for each
\* attribute present, in the order id, name, data-testid, data-input, type
\* (of an input element), placeholder, aria-label, first class; the list of
\* record_current_element has them in the order id, name, data-testid,
\* placeholder, aria-label.  Placeholder always precedes aria-label, an
\* absent attribute adds nothing, no structural path is in the list, and a
\* class attribute of blanks makes generate_css_selectors raise.
C23_SourcePriorityOrder ==
  LET g == generation
      sel == g.out.selectors
  IN  g.pc = "done" =>
        /\ g.out.raised <=> (g.fn = "css" /\ g.snapshot.class = "blank")
        /\ g.fn = "css" /\ ~g.out.raised =>
             sel = InOrder(<<"id", "name", "testid", "datainput", "type",
                             "placeholder", "aria", "class">>, g.snapshot)
        /\ g.fn = "click" =>
             sel = InOrder(<<"id", "name", "testid", "placeholder", "aria">>,
                           g.snapshot)
        /\ \A i, j \in 1..Len(sel) :
             (sel[i] = "aria" /\ sel[j] = "placeholder") => j < i
        /\ \A i \in 1..Len(sel) :
             sel[i] # "path" /\ CarriedBy(g.snapshot, sel[i])

\* An element with a placeholder and an aria-label, and nothing else, was
\* given to generate_css_selectors.
C23_Witness ==
  /\ generation.fn = "css"
  /\ generation.pc = "done"
  /\ generation.out.selectors = <<"placeholder", "aria">>

\* C24: resolving the primary of a recorded recipe in the same document
\* gives the element the recipe was made from.
C24_PrimaryResolvesToOriginal ==
  discovery.pc = "resolved" => discovery.back = "original"

\* C25: every recipe held in self.selectors, and every recipe save_selectors
\* wrote, has a non-empty primary, a non-empty fallback list or a non-empty
\* xpath, whatever run_auto_mode found and whatever the operator bound and
\* deleted.
HasExpression(entry) == entry.primary \/ entry.fallback \/ entry.xpath

C25_RecipeNeverEmpty ==
  /\ \A i \in 1..Len(rec.selectors) : HasExpression(rec.selectors[i])
  /\ \A i \in 1..Len(rec.file.content) : HasExpression(rec.file.content[i])

\* A file was written that holds a recipe of run_auto_mode with an empty
\* primary and no fallback, kept non-empty by its xpath alone, next to a
\* recipe bound by the operator.
C25_Witness ==
  /\ rec.file.written
  /\ Len(rec.file.content) = 2
  /\ \E i \in 1..2 :
       LET entry == rec.file.content[i]
       IN  /\ entry.made = 0
           /\ ~entry.primary /\ ~entry.fallback /\ entry.xpath
  /\ \E i \in 1..2 : rec.file.content[i].made = 1

\* C26: the selectors file is written by the save command and by nothing
\* else, with the entries held at that moment; after a run ended by q,
\* Ctrl-C or end of input the file is as it was, whatever was bound and
\* deleted before.
C26_FileWrittenOnlyBySave ==
  /\ [](rec.file.written => rec.lastKey = "s" /\ rec.pc = "stopped")
  /\ [][rec'.file # rec.file
          => /\ rec.pc = "prompt"
             /\ rec'.lastKey = "s"
             /\ ~rec.file.written
             /\ rec'.file.content = rec.selectors]_vars
  /\ [](rec.pc = "stopped" /\ rec.lastKey \in {"q", "ctrl-c", "eof"}
          => rec.file = [written |-> FALSE, content |-> <<>>])
  /\ [](rec.pc = "raised" => ~rec.file.written)

\* The operator bound elements, deleted every binding, and the run ended at
\* the end of input: no file was written.
C26_Witness ==
  /\ rec.pc = "stopped"
  /\ rec.lastKey = "eof"
  /\ rec.mode = "interactive"
  /\ rec.binds = MaxBinds
  /\ rec.selectors = <<>>
  /\ ~rec.file.written

\* C27: the delete command removes the name bound by the latest bind
\* command, also a name that command bound anew, and leaves every other
\* binding as it was.
C27_DeleteRemovesLatestBound ==
  [][(/\ rec.pc = "prompt"
      /\ rec'.lastKey = "d"
      /\ rec.lastBound # "none"
      /\ Len(rec'.selectors) < Len(rec.selectors))
     => rec'.selectors =
          SelectSeq(rec.selectors, LAMBDA x : x.name # rec.lastBound)]_vars

\* C28: a digit command binds the clicked element to the name the printed
\* instructions give for that digit.
C28_DigitsBindPrintedNames ==
  [][(rec'.binds = rec.binds + 1 /\ rec'.lastKey \in Digits)
     => rec'.lastBound = PrintedNames[rec'.lastKey]]_vars

\* C29: in one call of upload_bulk the session is opened once and login is
\* attempted once, both before the workflow is invoked on the first record:
\* no step between items or in a retry opens a session or goes back to
\* login.
C29_OneSessionOneLoginBeforeFirstItem ==
  /\ [](pc \in {"item", "delay"}
          => driver = "open" /\ loggedIn = "ok" /\ Len(invoked) >= 1)
  /\ [](pc \in {"setup", "login"} => invoked = <<>> /\ loggedIn = "none")
  /\ [][pc' = "setup" /\ pc # "setup" => runs' = runs + 1]_vars
  /\ [][pc' = "login" /\ pc # "login" => pc = "setup"]_vars
  /\ [][openSessions' > openSessions
          => pc = "setup" /\ openSessions' = openSessions + 1]_vars
  /\ [][loggedIn' # loggedIn
          => \/ pc = "login" /\ loggedIn = "none"
             \/ runs' = runs + 1 /\ loggedIn' = "none"]_vars

\* upload_bulk is at the second record of the batch, in a retry of the
\* workflow, on the session and the login made before the first record.
C29_Witness ==
  /\ mode = "bulk"
  /\ pc = "item"
  /\ pos = 1
  /\ Len(invoked) = 2
  /\ wf.retry_count = 1
  /\ loggedIn = "ok"
  /\ driver = "open"

\* C30: whatever calls of upload_bulk and upload_single were made on one
\* uploader, at most one browser session is open.
C30_AtMostOneSessionOpen == openSessions <= 1

\* C31: a cancellation takes effect between items only: when the call has
\* been cancelled, the item that was in progress has run to its outcome and
\* the session has been released.
C31_CancelledBetweenItemsAndReleased ==
  (pc = "raised" /\ raisedBy = "interrupt")
    => /\ wf.pc \in {"none", "returned"}
       /\ driver # "open"

\* C32 (as the spec has it): a call of upload_bulk ends with a failure
\* status exactly if an item of the batch failed.
C32_FailureStatusIffItemFailed ==
  (mode = "bulk" /\ runs = 1 /\ pc \in {"done", "raised"})
    => (ExitStatus # 0 <=> stats.failed >= 1)

\* C32 (as the source has it): whenever upload_bulk returns, with failed
\* items, after a failed login or on an empty input, the status is 0; it is
\* non-zero exactly if an exception left the call.
C32_StatusIndependentOfFailures ==
  (mode = "bulk" /\ pc \in {"done", "raised"})
    => (ExitStatus # 0 <=> pc = "raised")

\* A batch whose last item failed has returned, and the status is 0.
C32_Witness ==
  /\ mode = "bulk"
  /\ pc = "done"
  /\ lastResult = "false"
  /\ stats.failed >= 1
  /\ ExitStatus = 0

\* The k-th window is smaller than the next one.
Larger(w, v) == v[1] > w[1] /\ v[2] > w[2]

\* C33 (as the spec has it): the delay window before retry k+1 of a listing
\* is larger than the one before retry k.
C33_RetryDelayEscalates ==
  \A k \in 1..(Len(wf.delays) - 1) : Larger(wf.delays[k], wf.delays[k + 1])

\* C33 (as the source has it): the delay before every retry of a listing is
\* drawn from the same window, 5 to 10 seconds, one delay per retry.
C33_RetryDelayWindowConstant ==
  /\ \A k \in 1..Len(wf.delays) :
       wf.delays[k] = <<RetryDelayMin, RetryDelayMax>>
  /\ wf.pc \in {StepOrder[k] : k \in 1..Len(StepOrder)}
       => Len(wf.delays) = wf.retry_count
  /\ wf.pc = "retry_delay" => Len(wf.delays) = wf.retry_count + 1

\* A listing is in its second retry, each retry after a delay of the same
\* window.
C33_Witness ==
  /\ pc = "item"
  /\ wf.retry_count = 2
  /\ Len(wf.delays) = 2
  /\ wf.delays[1] = wf.delays[2]

\* The attempt whose steps are logged ran Navigate with success and clicked
\* a publish or a save-draft button.
NavigatedAndClicked(w, outcomes) ==
  /\ w.stepLog = StepOrder
  /\ Len(outcomes) = Len(StepOrder)
  /\ outcomes[1] = "applied"
  /\ outcomes[Len(StepOrder)] \in {"published", "drafted"}

\* C34: upload_single_product returns True exactly if, in its last attempt,
\* Navigate succeeded and a publish or save-draft button was clicked; what
\* the fill, category, tag, image and digital steps came to plays no part:
\* an attempt whose Navigate succeeded always reaches the publish step.
C34_ResultIsNavigateAndClick ==
  [][returned' = returned + 1
      => /\ lastResult' = "true" <=> NavigatedAndClicked(wf', stepOutcomes')
         /\ lastResult' \in {"true", "false"}
         /\ (stepOutcomes' # <<>> /\ stepOutcomes'[1] = "applied")
              => wf'.stepLog = StepOrder]_vars

\* The workflow returned True from a retry in which a fill step raised and
\* another did not find its target.
C34_Witness ==
  /\ wf.pc = "returned"
  /\ lastResult = "true"
  /\ wf.retry_count = 1
  /\ \E i, j \in 2..(Len(StepOrder) - 1) :
       stepOutcomes[i] = "error" /\ stepOutcomes[j] = "skipped"

\* C35: the recipe run_auto_mode records for a target it found has a primary
\* that is not empty and is one of the target's listed selectors matching in
\* the document, also when the generator gives no selector for the element.
C35_AutoPrimaryIsMatchingCandidate ==
  (discovery.mode = "auto" /\ discovery.pc \in {"stored", "resolved"})
    => /\ Len(discovery.primary) = 2
       /\ discovery.primary[1] = "listed"
       /\ discovery.doc[discovery.primary[2]] # "raises"

\* The index of upload_single identifies no row of the input.
NoSuchRow == n_products = 0 \/ product_id < 0 \/ product_id >= n_products

\* C36: upload_single with an index that identifies no row (below 0, at or
\* beyond the number of rows, or an empty input) returns at once: no session
\* is opened, the workflow is invoked on no record, the counters stay.
C36_NoSuchRowDoesNothing ==
  (mode = "single" /\ NoSuchRow)
    => /\ pc = "done"
       /\ invoked = <<>>
       /\ driver # "open"

\* The commands that bind: a digit, a letter that is no command, Enter.
BindKeys == Digits \cup {"a", ""}

\* C37: a bind command given before any click was recorded leaves
\* self.selectors as it was: no entry is added, replaced or removed.
C37_BindWithoutClickChangesNothing ==
  [][(rec.pc = "prompt" /\ ~rec.clicked /\ rec'.lastKey \in BindKeys)
      => /\ rec'.selectors = rec.selectors
         /\ rec'.binds = rec.binds
         /\ rec'.lastBound = rec.lastBound
         /\ rec'.file = rec.file]_vars

\* A digit was the last command, nothing was clicked so far, and the entry
\* of run_auto_mode is all the registry holds.
C37_Witness ==
  /\ rec.pc = "prompt"
  /\ ~rec.clicked
  /\ rec.lastKey = "1"
  /\ rec.binds = 0
  /\ Len(rec.selectors) = 1

\* C38: for a listing without tags, its tag field the empty string or
\* missing, _add_tags goes through the default tags, at most 13 of them in
\* their listed order, and through nothing of the listing.
C38_NoTagsMeansDefaultTags ==
  (tagsRun.pc = "done" /\ tagsRun.input.kind \in {"empty", "other"})
    => TagsGoneThrough = FirstN(DefaultTags, TagLimit)

\* C39: for a tag string validate_products does not warn about (at most 13
\* tags that are not blank), parse_tags and _add_tags both keep every tag
\* that is not blank, in the original order.
C39_AcceptedRowKeepsEveryTag ==
  (tagCheck.pc = "entered" /\ ~tagCheck.warned)
    => LET all == NonBlank(tagCheck.parts, Positions(tagCheck.parts))
       IN  /\ NonBlank(tagCheck.parts, tagCheck.built) = all
           /\ NonBlank(tagCheck.parts, tagCheck.entered) = all

\* C40: constructing UploaderLogger, and so EtsyUploader, runs through
\* without an error: every statement finds the attributes it reads, the
\* session id among them, assigned.
C40_ConstructionCompletes ==
  /\ construction.error = "none"
  /\ construction.pc = "running"
       => Reads(ConstructorStatements[construction.i])
            \subseteq construction.attrs

====
